---- MODULE Spec2Model ----
(***************************************************************************)
(* A model of the edit-docx pipeline of bash-skills-agent:                 *)
(*   analyze_docx.py  ->  validate_edits.py  ->  apply_edits.py            *)
(*                    ->  repack_docx.py                                   *)
(*                                                                         *)
(* Abstractions used throughout:                                           *)
(*  - an XML element is its element tree (a record); ET.tostring followed  *)
(*    by ET.fromstring gives back the same tree, so a block's "xml" is     *)
(*    the tree itself;                                                     *)
(*  - a text is the sequence of its code points, so that split, strip and  *)
(*    the width estimate are computed as the code computes them;           *)
(*  - a block id "b<n>" is the number n, an alias "S1"/"CS0" is the pair   *)
(*    <<"S", 1>>/<<"CS", 0>>, a target id is the record of the fields the  *)
(*    target-id patterns capture;                                          *)
(*  - coordinates are 0-based as in the code, sequences are 1-based.       *)
(***************************************************************************)
EXTENDS Integers, Sequences, FiniteSets, TLC

VARIABLES
    original_docx,  \* the original .docx: a sequence of entries [name, data]
    extracted,      \* the working tree <work_dir>/extracted
    analysis_json,  \* <work_dir>/analysis.json
    edits_json,     \* <work_dir>/edits.json
    validation,     \* the last output of validate_edits.py
    applied,        \* how the last run of apply_edits.py ended
    output_docx,    \* the archive written by repack_docx.py
    session,        \* the calls of analyze() made so far by one process that
                    \* analyzes several documents: [docx, analysis] of each
    manager         \* the ContainerManager of one session, the containers of
                    \* the docker daemon and the calls of exec and stop that
                    \* are under way

vars == <<original_docx, extracted, analysis_json, edits_json, validation, applied,
          output_docx, session, manager>>

(***************************************************************************)
(* Bounds of the model.                                                    *)
(***************************************************************************)
MaxRows == 2      \* rows of a table of the document universe
MaxCols == 2      \* cells of a row
MaxParas == 2     \* paragraphs of a cell
MaxBatch == 2     \* edits of one batch

(***************************************************************************)
(* Texts: sequences of code points.                                        *)
(***************************************************************************)
\* the element of a set of one element; The({f(v) : v \in {e}}) is f of the
\* value of e
The(S) == CHOOSE y \in S : TRUE

NL == 10          \* "\n"
SP == 32          \* " "
PIPE == 124       \* "|"

IsSpace(ch) == ch \in {9, NL, 11, 12, 13, SP}

RECURSIVE LStrip(_)
LStrip(s) == IF s # <<>> /\ IsSpace(Head(s)) THEN LStrip(Tail(s)) ELSE s

RECURSIVE RStrip(_)
RStrip(s) ==
    IF s # <<>> /\ IsSpace(s[Len(s)]) THEN RStrip(SubSeq(s, 1, Len(s) - 1)) ELSE s

\* str.strip()
Strip(s) == RStrip(LStrip(s))

Contains(s, ch) == \E i \in 1..Len(s) : s[i] = ch

\* str.split(sep) for a one-character separator: always at least one field
RECURSIVE SplitFrom(_, _, _)
SplitFrom(s, sep, cur) ==
    IF s = <<>> THEN <<cur>>
    ELSE IF Head(s) = sep THEN <<cur>> \o SplitFrom(Tail(s), sep, <<>>)
    ELSE SplitFrom(Tail(s), sep, Append(cur, Head(s)))

Split(s, sep) == SplitFrom(s, sep, <<>>)

RECURSIVE Concat(_)
Concat(ss) == IF ss = <<>> THEN <<>> ELSE Head(ss) \o Concat(Tail(ss))

RECURSIVE Join(_, _)
Join(ss, sep) ==
    IF ss = <<>> THEN <<>>
    ELSE IF Len(ss) = 1 THEN ss[1]
    ELSE ss[1] \o sep \o Join(Tail(ss), sep)

RECURSIVE SumSeq(_)
SumSeq(ws) == IF ws = <<>> THEN 0 ELSE Head(ws) + SumSeq(Tail(ws))

RemoveAt(s, i) == SubSeq(s, 1, i - 1) \o SubSeq(s, i + 1, Len(s))

\* list.insert(pos, x) with a 0-based position (pos >= len appends)
InsertAt(s, pos, x) ==
    IF pos >= Len(s) THEN Append(s, x)
    ELSE SubSeq(s, 1, pos) \o <<x>> \o SubSeq(s, pos + 1, Len(s))

(***************************************************************************)
(* XML text.  escape_xml turns the five reserved characters into entities; *)
(* the XML parser turns entities back into characters.  A text that goes   *)
(* through an f-string and ET.fromstring is escaped and then parsed; a     *)
(* text assigned to Element.text is stored as it is.                       *)
(***************************************************************************)
AMP == 38         \* "&"
LT == 60          \* "<"
GT == 62          \* ">"
QUOT == 34        \* '"'
APOS == 39        \* "'"
SEMI == 59        \* ";"

\* the entity names: amp, lt, gt, quot, apos
EntityOf(ch) ==
    CASE ch = AMP -> <<AMP, 97, 109, 112, SEMI>>
      [] ch = LT -> <<AMP, 108, 116, SEMI>>
      [] ch = GT -> <<AMP, 103, 116, SEMI>>
      [] ch = QUOT -> <<AMP, 113, 117, 111, 116, SEMI>>
      [] ch = APOS -> <<AMP, 97, 112, 111, 115, SEMI>>
      [] OTHER -> <<ch>>

escape_xml(text) == Concat([i \in 1..Len(text) |-> EntityOf(text[i])])

HasPrefix(s, pre) == Len(s) >= Len(pre) /\ SubSeq(s, 1, Len(pre)) = pre

\* what the XML parser makes of character data
RECURSIVE ParseText(_)
ParseText(s) ==
    IF s = <<>> THEN <<>>
    ELSE IF \E ch \in {AMP, LT, GT, QUOT, APOS} : HasPrefix(s, EntityOf(ch))
    THEN LET ch == CHOOSE x \in {AMP, LT, GT, QUOT, APOS} : HasPrefix(s, EntityOf(x))
         IN <<ch>> \o ParseText(SubSeq(s, Len(EntityOf(ch)) + 1, Len(s)))
    ELSE <<Head(s)>> \o ParseText(Tail(s))

\* str(n) for a natural number
RECURSIVE Str(_)
Str(n) == IF n < 10 THEN <<48 + n>> ELSE Str(n \div 10) \o <<48 + (n % 10)>>

(***************************************************************************)
(* Dictionaries keep their insertion order (json objects, Python dicts):   *)
(* sequences of [k, v] with distinct keys.                                 *)
(***************************************************************************)
DictHas(d, key) == \E i \in 1..Len(d) : d[i].k = key

DictGet(d, key, default) ==
    IF DictHas(d, key) THEN d[CHOOSE i \in 1..Len(d) : d[i].k = key].v ELSE default

DictPut(d, key, val) ==
    IF DictHas(d, key)
    THEN [i \in 1..Len(d) |-> IF d[i].k = key THEN [k |-> key, v |-> val] ELSE d[i]]
    ELSE Append(d, [k |-> key, v |-> val])

DictKeys(d) == {d[i].k : i \in 1..Len(d)}

(***************************************************************************)
(* Element trees.                                                          *)
(*   run        [rPr, text, more]      text: the text of the first w:t of  *)
(*                                     the run; more: the texts of its     *)
(*                                     further w:t children (after a tab   *)
(*                                     or a break)                         *)
(*   paragraph  [kind |-> "p", pStyle, pPr, runs, obj, lead, trail]        *)
(*                                     pStyle: the w:val of w:pStyle;      *)
(*                                     pPr: the other children of w:pPr,   *)
(*                                     elements [tag, attrs, children] of  *)
(*                                     the namespace w, attrs a sequence   *)
(*                                     of [name, value] in document order  *)
(*                                     obj: the tag <<prefix, namespace,   *)
(*                                     name>> of the object a run of the   *)
(*                                     paragraph holds (w:drawing, w:pict, *)
(*                                     v:shape in a w:object,              *)
(*                                     mc:AlternateContent), <<>> when it  *)
(*                                     holds none; lead, trail: the        *)
(*                                     bookmark markers before the first   *)
(*                                     run (after w:pPr) and after the     *)
(*                                     last run                            *)
(*   table      [kind |-> "tbl", tblW, grid, rows]                         *)
(*     row      [trPr, cells]          trPr 0: the row has no w:trPr       *)
(*     cell     [tcPr, tcW, paras, inner]                                  *)
(*                                     tcPr: the visual properties, tcW:   *)
(*                                     the width; inner: the rows of a     *)
(*                                     table nested in the cell (<<>> when *)
(*                                     there is none), after the cell's    *)
(*                                     paragraphs; nesting is one deep     *)
(*   sectPr     [kind |-> "sectPr", pg]                                    *)
(*   sdt        [kind |-> "sdt", alias, gallery, entries]                  *)
(*                                     alias, gallery: the w:val of        *)
(*                                     w:alias and of w:docPartGallery in  *)
(*                                     w:sdtPr ("" when there is none);    *)
(*                                     entries: the w:p children of        *)
(*                                     w:sdtContent                        *)
(*     entry    [kind |-> "entry", pStyle, left, anchor, number, title,    *)
(*               page]                 left: the w:left of w:ind, 0 when   *)
(*                                     there is none.  With an anchor the  *)
(*                                     paragraph is a w:hyperlink to it    *)
(*                                     that holds a run with the number,   *)
(*                                     a tab and a PAGEREF field of the    *)
(*                                     anchor whose result is a run with   *)
(*                                     the title and a run with a tab and  *)
(*                                     the page.  Without (anchor <<>>)    *)
(*                                     it is a run with the title and a    *)
(*                                     run with a tab and the page, and    *)
(*                                     number is "".  An entry has no      *)
(*                                     border and no bold run.             *)
(* tblW is the w:w attribute of tblPr/tblW, -1 when there is none; grid    *)
(* holds the w:w attributes of the w:gridCol children of w:tblGrid.        *)
(***************************************************************************)
Elem(tag, attrs, children) == [tag |-> tag, attrs |-> attrs, children |-> children]
Attr(name, value) == [name |-> name, value |-> value]

\* <w:jc w:val="center"/>
Centered == <<Elem("jc", <<Attr("val", "center")>>, <<>>)>>

Run(pr, t) == [rPr |-> pr, text |-> t, more |-> <<>>]
Para(st, pr, rs) ==
    [kind |-> "p", pStyle |-> st, pPr |-> pr, runs |-> rs, obj |-> <<>>,
     lead |-> <<>>, trail |-> <<>>]

\* <w:bookmarkStart w:id="{id}" w:name="{name}"/>, <w:bookmarkEnd w:id="{id}"/>
BookmarkStart(id, name) == [tag |-> "bookmarkStart", id |-> id, name |-> name]
BookmarkEnd(id) == [tag |-> "bookmarkEnd", id |-> id, name |-> <<>>]
Cell(pr, w, ps, inner) == [tcPr |-> pr, tcW |-> w, paras |-> ps, inner |-> inner]
Row(pr, cs) == [trPr |-> pr, cells |-> cs]
Tbl(w, g, rs) == [kind |-> "tbl", tblW |-> w, grid |-> g, rows |-> rs]
SectPr(n) == [kind |-> "sectPr", pg |-> n]
Sdt(alias, gallery, entries) ==
    [kind |-> "sdt", alias |-> alias, gallery |-> gallery, entries |-> entries]
Entry(st, left, anchor, number, title, page) ==
    [kind |-> "entry", pStyle |-> st, left |-> left, anchor |-> anchor,
     number |-> number, title |-> title, page |-> page]

\* root.findall(".//w:tr") as paths, in document order: <<r>> is child row r
\* of the table, <<r, c, k>> is row k of the table nested in its cell c.
DescRowPaths(tbl) ==
    Concat([r \in 1..Len(tbl.rows) |->
        <<<<r>>>> \o Concat([c \in 1..Len(tbl.rows[r].cells) |->
            [k \in 1..Len(tbl.rows[r].cells[c].inner) |-> <<r, c, k>>]])])

RowAt(tbl, path) ==
    IF Len(path) = 1 THEN tbl.rows[path[1]]
    ELSE tbl.rows[path[1]].cells[path[2]].inner[path[3]]

\* root.findall(".//w:tr")
DescRows(tbl) == [i \in 1..Len(DescRowPaths(tbl)) |-> RowAt(tbl, DescRowPaths(tbl)[i])]

SetRow(tbl, path, row) ==
    IF Len(path) = 1 THEN [tbl EXCEPT !.rows[path[1]] = row]
    ELSE [tbl EXCEPT !.rows[path[1]].cells[path[2]].inner[path[3]] = row]

\* tbl.remove(target_row) on the parent of the row
RemoveRow(tbl, path) ==
    IF Len(path) = 1 THEN [tbl EXCEPT !.rows = RemoveAt(@, path[1])]
    ELSE [tbl EXCEPT !.rows[path[1]].cells[path[2]].inner = RemoveAt(@, path[3])]

\* parent.insert(child_idx + 1, new_row) on the parent of the row
InsertRowAfter(tbl, path, row) ==
    IF Len(path) = 1 THEN [tbl EXCEPT !.rows = InsertAt(@, path[1], row)]
    ELSE [tbl EXCEPT !.rows[path[1]].cells[path[2]].inner = InsertAt(@, path[3], row)]

\* tr.findall(".//w:tc") as paths: <<c>> is child cell c of the row,
\* <<c, k, j>> is cell j of row k of the table nested in cell c.
DescCellPaths(row) ==
    Concat([c \in 1..Len(row.cells) |->
        <<<<c>>>> \o Concat([k \in 1..Len(row.cells[c].inner) |->
            [j \in 1..Len(row.cells[c].inner[k].cells) |-> <<c, k, j>>]])])

CellAt(row, path) ==
    IF Len(path) = 1 THEN row.cells[path[1]]
    ELSE row.cells[path[1]].inner[path[2]].cells[path[3]]

SetCell(row, path, cell) ==
    IF Len(path) = 1 THEN [row EXCEPT !.cells[path[1]] = cell]
    ELSE [row EXCEPT !.cells[path[1]].inner[path[2]].cells[path[3]] = cell]

\* the texts of p.findall(".//w:t")
ParaTexts(p) == Concat([i \in 1..Len(p.runs) |-> <<p.runs[i].text>> \o p.runs[i].more])

\* the texts of tc.findall(".//w:t"), in document order
CellTexts(tc) ==
    Concat([i \in 1..Len(tc.paras) |-> ParaTexts(tc.paras[i])])
    \o Concat([k \in 1..Len(tc.inner) |->
           Concat([j \in 1..Len(tc.inner[k].cells) |->
               Concat([i \in 1..Len(tc.inner[k].cells[j].paras) |->
                   ParaTexts(tc.inner[k].cells[j].paras[i])])])])

(***************************************************************************)
(* The .docx archive and the working tree.                                 *)
(*   entry name  [dir, base, ext]   "word/document.xml" is                 *)
(*                                  [dir |-> "word", base |-> "document",  *)
(*                                   ext |-> "xml"]                        *)
(*   entry data  [bytes, body]      body: the children of w:body when the  *)
(*                                  entry is a document part, else <<>>    *)
(* An archive is the sequence of its entries [name, data] (names may       *)
(* repeat); the tree is [exists, files], files a function from names.      *)
(***************************************************************************)
DocPart == [dir |-> "word", base |-> "document", ext |-> "xml"]

\* no alias: a missing or empty alias field
NoAlias == <<>>

NoTree == [exists |-> FALSE]

\* filename.endswith(".xml") or filename.endswith(".rels")
IsXmlOrRels(name) == name.ext \in {"xml", "rels"}

\* ZipFile.read(name): the name is looked up in the name table, which holds
\* the last entry written under that name
ZipRead(arch, name) ==
    arch[CHOOSE i \in 1..Len(arch) :
            /\ arch[i].name = name
            /\ \A j \in (i + 1)..Len(arch) : arch[j].name # name].data

extract_docx_xml(arch) ==
    [exists |-> TRUE,
     files |-> [n \in {arch[i].name : i \in {j \in 1..Len(arch) : IsXmlOrRels(arch[j].name)}}
                  |-> ZipRead(arch, n)]]

(***************************************************************************)
(* analyze_docx.py                                                         *)
(***************************************************************************)
_extract_paragraph_text(p) == Concat(ParaTexts(p))

IsBlank(t) == Strip(t) = <<>>

\* "[r{r}c{c}]" and "[r{r}c{c}p{p}]", 0-based
CellLabel(r, c) == <<91, 114>> \o Str(r) \o <<99>> \o Str(c) \o <<93>>
ParaLabel(r, c, q) == <<91, 114>> \o Str(r) \o <<99>> \o Str(c) \o <<112>> \o Str(q) \o <<93>>

_extract_table_text(tbl) ==
    LET rows == DescRows(tbl)
        CellText(r, tc, c) ==
            IF Len(tc.paras) <= 1
            THEN CellLabel(r, c) \o <<SP>> \o Concat(CellTexts(tc))
            ELSE Join(<<CellLabel(r, c)>> \o
                      Concat([q \in 1..Len(tc.paras) |->
                          IF IsBlank(_extract_paragraph_text(tc.paras[q])) THEN <<>>
                          ELSE << <<SP, SP, SP, SP>> \o ParaLabel(r, c, q - 1) \o <<SP>>
                                  \o _extract_paragraph_text(tc.paras[q]) >>]),
                      <<NL>>)
        RowText(r) ==
            LET cps == DescCellPaths(rows[r])
            IN Join([c \in 1..Len(cps) |-> CellText(r - 1, CellAt(rows[r], cps[c]), c - 1)],
                    <<SP, PIPE, SP>>)
    IN Join([r \in 1..Len(rows) |-> RowText(r)], <<NL>>)

_BOOLEAN_TAGS == {"b", "bCs", "i", "iCs", "strike", "dstrike", "caps", "smallCaps"}

\* the tag and attribute names of the universe as sorted() orders them
NameOrder ==
    <<"b", "ilvl", "ind", "jc", "keepNext", "left", "line", "lineRule", "numId", "numPr",
      "rPr", "val">>

Rank(name) == CHOOSE i \in 1..Len(NameOrder) : NameOrder[i] = name

\* sorted(elem, key=lambda x: x.tag): a stable sort
RECURSIVE SortedByTag(_)
SortedByTag(elems) ==
    IF elems = <<>> THEN <<>>
    ELSE LET h == Head(elems)
             rest == SortedByTag(Tail(elems))
         IN SelectSeq(rest, LAMBDA e : Rank(e.tag) < Rank(h.tag))
            \o <<h>>
            \o SelectSeq(rest, LAMBDA e : Rank(e.tag) >= Rank(h.tag))

\* sorted(elem.attrib.keys()); an element has no two attributes of a name
RECURSIVE SortedByName(_)
SortedByName(attrs) ==
    IF attrs = <<>> THEN <<>>
    ELSE LET h == Head(attrs)
             rest == SortedByName(Tail(attrs))
         IN SelectSeq(rest, LAMBDA a : Rank(a.name) < Rank(h.name))
            \o <<h>>
            \o SelectSeq(rest, LAMBDA a : Rank(a.name) >= Rank(h.name))

\* sep.join(parts), on strings
RECURSIVE JoinStr(_, _)
JoinStr(parts, sep) ==
    IF parts = <<>> THEN ""
    ELSE IF Len(parts) = 1 THEN parts[1]
    ELSE parts[1] \o sep \o JoinStr(Tail(parts), sep)

RECURSIVE _element_to_key_part(_)
_element_to_key_part(elem) ==
    LET attrs == SortedByName(elem.attrs)
        children == SortedByTag(elem.children)
        attr_parts == [i \in 1..Len(attrs) |->
                          IF attrs[i].name = "val" THEN attrs[i].value
                          ELSE attrs[i].name \o attrs[i].value]
        child_parts == SelectSeq([i \in 1..Len(children) |-> _element_to_key_part(children[i])],
                                 LAMBDA part : part # "")
        all_sub == attr_parts \o child_parts
    IN IF /\ elem.tag \in _BOOLEAN_TAGS
          /\ Len(elem.attrs) = 1
          /\ elem.attrs[1].name = "val" /\ elem.attrs[1].value \in {"0", "false"}
          /\ elem.children = <<>>
       THEN ""
       ELSE IF all_sub # <<>> THEN elem.tag \o "-" \o JoinStr(all_sub, "_")
       ELSE elem.tag

\* w:pStyle is the field pStyle of the paragraph; w:rPr is skipped
_build_ppr_key(p) ==
    LET children == SortedByTag(p.pPr)
        kept == SelectSeq(children, LAMBDA child : child.tag # "rPr")
    IN JoinStr(SelectSeq([i \in 1..Len(kept) |-> _element_to_key_part(kept[i])],
                         LAMBDA part : part # ""),
               "_")

\* {pStyle}_{ppr_key}, or {pStyle} when the fingerprint of the other
\* paragraph properties is empty; the key is the one-element tuple of the
\* string
_generate_style_key(p) ==
    LET ppr_key == _build_ppr_key(p)
    IN IF ppr_key # "" THEN <<p.pStyle \o "_" \o ppr_key>> ELSE <<p.pStyle>>

_build_ppr_xml(p) == <<p.pStyle, p.pPr>>

_run_has_text(run) ==
    ~IsBlank(run.text) \/ \E i \in 1..Len(run.more) : ~IsBlank(run.more[i])

\* the run with the text of every w:t replaced by the content slot: its
\* properties, and the number of its further w:t children
_build_run_style_template(run) ==
    [rpr_key |-> run.rPr, rpr_xml |-> [rPr |-> run.rPr, slots |-> Len(run.more)]]

\* lines 1275-1286 and 621-629: one template per distinct rpr_key, RS0, RS1, ...
RECURSIVE CollectRunTemplates(_, _)
CollectRunTemplates(rst, runs) ==
    IF runs = <<>> THEN rst
    ELSE LET run == Head(runs)
             known == {rst[i].v.rpr_key : i \in 1..Len(rst)}
         IN CollectRunTemplates(
                IF _run_has_text(run) /\ run.rPr \notin known
                THEN DictPut(rst, <<"RS", Len(rst)>>, _build_run_style_template(run))
                ELSE rst,
                Tail(runs))

\* the cell with its paragraphs removed and the layout properties (tcW)
\* stripped; the content slot follows tcPr
_extract_cell_xml_template(tc) == [tag |-> "tc", tcPr |-> tc.tcPr, inner |-> tc.inner]

_extract_cell_style(tc) ==
    [paragraph_styles |->
        [i \in 1..Len(tc.paras) |->
            [paragraph_style_key |-> _generate_style_key(tc.paras[i]),
             ppr_xml_template |-> _build_ppr_xml(tc.paras[i]),
             run_style_templates |-> CollectRunTemplates(<<>>, tc.paras[i].runs)]],
     tc_xml_template |-> _extract_cell_xml_template(tc)]

_extract_table_xml_template(tbl) == [tbl EXCEPT !.rows = <<>>]

_extract_row_xml_template(tr) == [tag |-> "trPr", trPr |-> tr.trPr]

\* the number of tables in the documents the process analyzed so far
RECURSIVE TablesAnalyzed(_)
TablesAnalyzed(calls) ==
    IF calls = <<>> THEN 0
    ELSE Len(SelectSeq(Head(calls).analysis.blocks, LAMBDA blk : blk.type = "tbl"))
         + TablesAnalyzed(Tail(calls))

\* _AnalyzerState() as it would be if the table counter were a counter of
\* the process
AnalyzerState_with_process_counter ==
    [table_counter |-> TablesAnalyzed(session), rs_counter |-> 0, cs_counter |-> 0,
     row_style_cache |-> <<>>, cell_style_cache |-> <<>>,
     row_style_map |-> <<>>, cell_style_map |-> <<>>,
     table_style_templates |-> <<>>,
     toc_level_cache |-> <<>>, tl_counter |-> 0, toc_style_templates |-> <<>>]

\* _AnalyzerState()
AnalyzerState0 ==
    [table_counter |-> 0, rs_counter |-> 0, cs_counter |-> 0,
     row_style_cache |-> <<>>, cell_style_cache |-> <<>>,
     row_style_map |-> <<>>, cell_style_map |-> <<>>,
     table_style_templates |-> <<>>,
     toc_level_cache |-> <<>>, tl_counter |-> 0, toc_style_templates |-> <<>>]

\* lines 686-693
CellStyleStep(st, tc) ==
    LET fp == _extract_cell_xml_template(tc)
        alias == <<"CS", st.cs_counter>>
    IN IF DictHas(st.cell_style_cache, fp) THEN st
       ELSE [st EXCEPT !.cell_style_cache = DictPut(@, fp, alias),
                       !.cell_style_map = DictPut(@, alias, fp),
                       !.cs_counter = @ + 1]

RECURSIVE FoldCellStyles(_, _)
FoldCellStyles(st, cells) ==
    IF cells = <<>> THEN st
    ELSE The({FoldCellStyles(st1, Tail(cells)) : st1 \in {CellStyleStep(st, Head(cells))}})

\* lines 671-698
RowStyleStep(st, tr) ==
    LET fp == _extract_row_xml_template(tr)
        alias == <<"RS", st.rs_counter>>
    IN The({FoldCellStyles(st1, tr.cells) :
               st1 \in {IF DictHas(st.row_style_cache, fp) THEN st
                        ELSE [st EXCEPT !.row_style_cache = DictPut(@, fp, alias),
                                        !.row_style_map = DictPut(@, alias, fp),
                                        !.rs_counter = @ + 1]}})

RECURSIVE FoldRowStyles(_, _)
FoldRowStyles(st, rows) ==
    IF rows = <<>> THEN st
    ELSE The({FoldRowStyles(st1, Tail(rows)) : st1 \in {RowStyleStep(st, Head(rows))}})

\* The result is [template, row_aliases, cell_alias_map, state]; the rows and
\* cells are the children (findall("w:tr"), findall("w:tc")).
_extract_table_hierarchy(tbl, state) ==
    LET st0 == [state EXCEPT !.table_counter = @ + 1]
        Result(st1) ==
       [template |->
            [table_style_key |-> <<"T", st0.table_counter>>,
             tbl_xml_template |-> _extract_table_xml_template(tbl),
             row_styles |-> [r \in 1..Len(tbl.rows) |-> _extract_row_xml_template(tbl.rows[r])],
             cell_style_templates |->
                 [r \in 1..Len(tbl.rows) |->
                     [c \in 1..Len(tbl.rows[r].cells) |-> _extract_cell_style(tbl.rows[r].cells[c])]]],
        row_aliases |->
            [r \in 1..Len(tbl.rows) |->
                DictGet(st1.row_style_cache, _extract_row_xml_template(tbl.rows[r]), NoAlias)],
        cell_alias_map |->
            [r \in 1..Len(tbl.rows) |->
                [c \in 1..Len(tbl.rows[r].cells) |->
                    DictGet(st1.cell_style_cache,
                            _extract_cell_xml_template(tbl.rows[r].cells[c]), NoAlias)]],
        state |-> st1]
    IN The({Result(st1) : st1 \in {FoldRowStyles(st0, tbl.rows)}})

\* the named style decides: a style whose name holds "heading" and the
\* digit 1 is H1, one whose name holds "list" is LIST, anything else of the
\* universe is BODY
_infer_semantic_info(p) ==
    IF p.pStyle = "Heading1" THEN "H1"
    ELSE IF p.pStyle = "ListParagraph" THEN "LIST"
    ELSE "BODY"

\* One step of the loop over the children of w:body (lines 1161-1233);
\* acc is [blocks, state].  w:sectPr is skipped, block ids count the
\* blocks, not the children.
\* The prefixes ElementTree writes: w and r are registered, the tags of any
\* other namespace get a generated prefix.
RegisteredPrefixes == {"w", "r"}

TagToString(tag) ==
    IF tag = <<>> \/ tag[1] \in RegisteredPrefixes THEN tag ELSE <<"ns1", tag[2], tag[3]>>

ParasToString(paras) == [i \in 1..Len(paras) |-> [paras[i] EXCEPT !.obj = TagToString(@)]]

RowsToString(rows) ==
    [r \in 1..Len(rows) |-> [rows[r] EXCEPT !.cells = [c \in 1..Len(@) |->
        [@[c] EXCEPT !.paras = ParasToString(@),
                     !.inner = [k \in 1..Len(@) |-> [@[k] EXCEPT !.cells =
                         [j \in 1..Len(@) |-> [@[j] EXCEPT !.paras = ParasToString(@)]]]]]]]]

\* ET.tostring(child, encoding="unicode")
ET_tostring(child) ==
    IF child.kind = "p" THEN [child EXCEPT !.obj = TagToString(@)]
    ELSE IF child.kind = "tbl" THEN [child EXCEPT !.rows = RowsToString(@)]
    ELSE child

\* str.upper() on the letters a-z
Upper(s) == [i \in 1..Len(s) |-> IF s[i] \in 97..122 THEN s[i] - 32 ELSE s[i]]

\* sub in s
HasSub(s, sub) == \E i \in 0..(Len(s) - Len(sub)) : SubSeq(s, i + 1, i + Len(sub)) = sub

\* str(n)
RECURSIVE Decimal(_)
Decimal(n) == IF n < 10 THEN <<48 + n>> ELSE Decimal(n \div 10) \o <<48 + (n % 10)>>

Chars_TOC == <<84, 79, 67>>
Chars_SDT == <<83, 68, 84>>
Chars_TableOfContents ==
    <<84, 97, 98, 108, 101, 32, 111, 102, 32, 67, 111, 110, 116, 101, 110, 116, 115>>

\* the gallery "Table of Contents", an alias that holds "TOC" in any case,
\* or a PAGEREF field in the content (lines 224-258)
_is_toc_sdt(sdt) ==
    \/ HasSub(sdt.gallery, Chars_TableOfContents)
    \/ HasSub(Upper(sdt.alias), Chars_TOC)
    \/ \E i \in 1..Len(sdt.entries) : sdt.entries[i].anchor # <<>>

\* the texts of the w:t elements of an entry that have text, in document
\* order
EntryTexts(e) ==
    SelectSeq(IF e.anchor # <<>> THEN <<e.number, e.title, e.page>> ELSE <<e.title, e.page>>,
              LAMBDA t : t # <<>>)

\* lines 164-221: "[alias] text" for a tag of at most one paragraph, else
\* "[alias]" and a line "  [p<i>] text" for every entry that has text
_extract_sdt_text(sdt) ==
    LET head == <<91>> \o (IF sdt.alias # <<>> THEN sdt.alias ELSE Chars_SDT) \o <<93>>
        texts == Concat([i \in 1..Len(sdt.entries) |-> EntryTexts(sdt.entries[i])])
        joined == Join(texts, <<SP>>)
        Line(i) == LET p_text == Concat(EntryTexts(sdt.entries[i]))
                   IN IF IsBlank(p_text) THEN <<>>
                      ELSE <<<<SP, SP, 91, 112>> \o Decimal(i - 1) \o <<93, SP>> \o p_text>>
    IN IF Len(sdt.entries) <= 1
       THEN head \o <<SP>> \o SubSeq(joined, 1, IF Len(joined) < 100 THEN Len(joined) ELSE 100)
       ELSE Join(<<head>> \o Concat([i \in 1..Len(sdt.entries) |-> Line(i)]), <<NL>>)

\* "{{name}}"
Placeholder(name) == <<123, 123>> \o name \o <<125, 125>>
Chars_number == <<110, 117, 109, 98, 101, 114>>
Chars_title == <<116, 105, 116, 108, 101>>
Chars_page == <<112, 97, 103, 101>>
Chars_anchor == <<97, 110, 99, 104, 111, 114>>

\* lines 736-826: the entry with placeholders for its texts and its anchor.
\* Of an entry without a hyperlink the first text is "{{number}} {{title}}"
\* and the page placeholder is in a run appended to the paragraph.
_extract_toc_paragraph_template(e) ==
    IF e.anchor # <<>>
    THEN [e EXCEPT !.anchor = Placeholder(Chars_anchor),
                   !.number = Placeholder(Chars_number),
                   !.title = Placeholder(Chars_title),
                   !.page = Placeholder(Chars_page)]
    ELSE [e EXCEPT !.title = Placeholder(Chars_number) \o <<SP>> \o Placeholder(Chars_title),
                   !.page = Placeholder(Chars_page)]

\* "borders:none|indent:<left>": the entries have no border and no bold run
_toc_level_fingerprint(indent_left) == <<"borders:none", "indent", indent_left>>

\* One step of the loop of _extract_toc_entry_levels (lines 855-933); acc is
\* [levels, state], levels the dict from the index of an entry to its TL
\* alias.  Of a template, the key and the XML template are kept.
TocLevelStep(acc, e, p_idx) ==
    LET fp == _toc_level_fingerprint(e.left)
        st == acc.state
        alias == <<"TL", st.tl_counter>>
        st1 == IF DictHas(st.toc_level_cache, fp) THEN st
               ELSE [st EXCEPT !.toc_level_cache = DictPut(@, fp, alias),
                               !.tl_counter = @ + 1,
                               !.toc_style_templates = DictPut(@, alias,
                                   [toc_style_key |-> alias,
                                    toc_xml_template |-> _extract_toc_paragraph_template(e)])]
    IN IF IsBlank(Concat(EntryTexts(e))) THEN acc
       ELSE [levels |-> DictPut(acc.levels, p_idx, DictGet(st1.toc_level_cache, fp, NoAlias)),
             state |-> st1]

RECURSIVE TocLevelFold(_, _, _)
TocLevelFold(acc, entries, p_idx) ==
    IF p_idx >= Len(entries) THEN acc
    ELSE The({TocLevelFold(next, entries, p_idx + 1) :
                 next \in {TocLevelStep(acc, entries[p_idx + 1], p_idx)}})

\* [levels, state]
_extract_toc_entry_levels(sdt, state) ==
    TocLevelFold([levels |-> <<>>, state |-> state], sdt.entries, 0)

ParseChild(acc, child) ==
    LET id == Len(acc.blocks)
    IN CASE child.kind = "p" ->
              [acc EXCEPT !.blocks = Append(@,
                  [id |-> id, type |-> "p",
                   text |-> _extract_paragraph_text(child),
                   xml |-> ET_tostring(child),
                   style_key |-> _generate_style_key(child),
                   semantic_tag |-> _infer_semantic_info(child),
                   row_style_aliases |-> <<>>,
                   cell_style_map |-> <<>>,
                   toc_entry_levels |-> <<>>])]
         [] child.kind = "tbl" ->
              The({[blocks |-> Append(acc.blocks,
                      [id |-> id, type |-> "tbl",
                       text |-> _extract_table_text(child),
                       xml |-> ET_tostring(child),
                       style_key |-> h.template.table_style_key,
                       semantic_tag |-> "TBL",
                       row_style_aliases |-> h.row_aliases,
                       cell_style_map |-> h.cell_alias_map,
                       toc_entry_levels |-> <<>>]),
                    state |-> [h.state EXCEPT !.table_style_templates =
                                  DictPut(@, h.template.table_style_key, h.template)]] :
                      h \in {_extract_table_hierarchy(child, acc.state)}})
         [] child.kind = "sdt" ->
              The({[blocks |-> Append(acc.blocks,
                      [id |-> id, type |-> "sdt",
                       text |-> _extract_sdt_text(child),
                       xml |-> ET_tostring(child),
                       style_key |-> IF _is_toc_sdt(child) THEN <<"toc_default">>
                                     ELSE <<"sdt_default">>,
                       semantic_tag |-> IF _is_toc_sdt(child) THEN "TOC" ELSE "SDT",
                       row_style_aliases |-> <<>>,
                       cell_style_map |-> <<>>,
                       toc_entry_levels |-> l.levels]),
                    state |-> l.state] :
                      l \in {IF _is_toc_sdt(child)
                             THEN _extract_toc_entry_levels(child, acc.state)
                             ELSE [levels |-> <<>>, state |-> acc.state]}})
         [] OTHER -> acc

RECURSIVE ParseChildren(_, _)
ParseChildren(acc, children) ==
    IF children = <<>> THEN acc
    ELSE The({ParseChildren(next, Tail(children)) : next \in {ParseChild(acc, Head(children))}})

\* [blocks, state] for the document part of the tree
parse_document_blocks(body, state) ==
    ParseChildren([blocks |-> <<>>, state |-> state], body)

\* lines 1258-1289
RECURSIVE build_paragraph_style_templates(_)
build_paragraph_style_templates(blocks) ==
    IF blocks = <<>> THEN <<>>
    ELSE LET before == build_paragraph_style_templates(SubSeq(blocks, 1, Len(blocks) - 1))
             block == blocks[Len(blocks)]
             fresh == [paragraph_style_key |-> block.style_key,
                       ppr_xml_template |-> _build_ppr_xml(block.xml),
                       run_style_templates |-> <<>>]
             tpl == DictGet(before, block.style_key, fresh)
         IN IF block.type # "p" THEN before
            ELSE DictPut(before, block.style_key,
                     [tpl EXCEPT !.run_style_templates =
                         CollectRunTemplates(@, block.xml.runs)])

\* A value of style_alias_map: a style key (S and T aliases), the trPr of a
\* row (RS aliases) or the shell of a cell (CS aliases).
KeyPayload(key) == [tag |-> "key", key |-> key]

\* lines 1368-1373 and 1498-1503: the alias of a paragraph style key,
\* S<counter> when the key is new; tm is [lines, map, k2a, counter]
WithStyleAlias(tm, style_key) ==
    IF DictHas(tm.k2a, style_key) THEN tm
    ELSE [tm EXCEPT !.k2a = DictPut(@, style_key, <<"S", tm.counter>>),
                    !.map = DictPut(@, <<"S", tm.counter>>, KeyPayload(style_key)),
                    !.counter = @ + 1]

RECURSIVE PutMissing(_, _)
PutMissing(map, more) ==
    IF more = <<>> THEN map
    ELSE The({PutMissing(next, Tail(more)) :
                 next \in {IF DictHas(map, Head(more).k) THEN map
                           ELSE Append(map, Head(more))}})

\* The lines of one cell (lines 1359-1384): a line for every paragraph of
\* the cell that has text.
RECURSIVE CellLines(_, _, _, _, _, _)
CellLines(tm, b, r, c, paras, q) ==
    IF q > Len(paras) THEN tm
    ELSE LET text == _extract_paragraph_text(paras[q])
         IN IF IsBlank(text) THEN CellLines(tm, b, r, c, paras, q + 1)
            ELSE The({CellLines(
                        [tm1 EXCEPT !.lines = Append(@,
                            [kind |-> "para", b |-> b, r |-> r, c |-> c, p |-> q - 1,
                             alias |-> DictGet(tm1.k2a, _generate_style_key(paras[q]), <<>>),
                             text |-> text])],
                        b, r, c, paras, q + 1) :
                     tm1 \in {WithStyleAlias(tm, _generate_style_key(paras[q]))}})

RECURSIVE RowLines(_, _, _, _, _)
RowLines(tm, block, r, cells, c) ==
    IF c > Len(cells) THEN tm
    ELSE The({RowLines(tm1, block, r, cells, c + 1) :
                 tm1 \in {CellLines(tm, block.id, r, c - 1, cells[c].paras, 1)}})

\* lines 1322-1389; the rows are the children of the table
RECURSIVE TableLines(_, _, _, _)
TableLines(tm, block, state, r) ==
    IF r > Len(block.xml.rows) THEN tm
    ELSE The({TableLines(tm2, block, state, r + 1) :
            tm2 \in {RowLines(tm1, block, r - 1, block.xml.rows[r].cells, 1) :
            tm1 \in {[tm EXCEPT !.lines = Append(@,
                         [kind |-> "row", b |-> block.id, r |-> r - 1,
                          alias |-> block.row_style_aliases[r]])]}}})

_generate_hierarchical_table_text(tm, block, state) ==
    TableLines([tm EXCEPT !.map = PutMissing(PutMissing(@, state.row_style_map),
                                             state.cell_style_map)],
               block, state, 1)

\* " ".join of the texts of entry para_idx (lines 936-964)
_get_toc_entry_text(block, para_idx) ==
    IF para_idx >= Len(block.xml.entries) THEN <<>>
    ELSE Join(EntryTexts(block.xml.entries[para_idx + 1]), <<SP>>)

\* One step of the loop of generate_text_merge (lines 1484-1548).
TextMergeStep(tm, block, state) ==
    IF IsBlank(block.text) THEN tm
    ELSE IF block.type = "tbl"
    THEN LET alias == block.style_key
             tm1 == IF DictHas(tm.map, alias) THEN tm
                    ELSE [tm EXCEPT !.map = DictPut(@, alias, KeyPayload(alias)),
                                    !.k2a = DictPut(@, alias, alias)]
             tm2 == [tm1 EXCEPT !.lines = Append(@,
                        [kind |-> "block", b |-> block.id, tag |-> block.semantic_tag,
                         alias |-> alias, text |-> <<>>])]
         IN _generate_hierarchical_table_text(tm2, block, state)
    ELSE IF block.type = "sdt" /\ block.toc_entry_levels # <<>>
    THEN LET tm1 == WithStyleAlias(tm, block.style_key)
             levels == block.toc_entry_levels
         IN [tm1 EXCEPT
                !.lines = Append(@,
                    [kind |-> "block", b |-> block.id, tag |-> block.semantic_tag,
                     alias |-> DictGet(tm1.k2a, block.style_key, <<>>), text |-> <<>>])
                    \o [i \in 1..Len(levels) |->
                          [kind |-> "entry", b |-> block.id, p |-> levels[i].k,
                           alias |-> levels[i].v,
                           text |-> _get_toc_entry_text(block, levels[i].k)]],
                !.map = PutMissing(@, [i \in 1..Len(levels) |->
                                         [k |-> levels[i].v, v |-> KeyPayload(levels[i].v)]])]
    ELSE LET tm1 == WithStyleAlias(tm, block.style_key)
         IN [tm1 EXCEPT !.lines = Append(@,
                [kind |-> "block", b |-> block.id, tag |-> block.semantic_tag,
                 alias |-> DictGet(tm1.k2a, block.style_key, <<>>),
                 text |-> block.text])]

RECURSIVE TextMergeFold(_, _, _)
TextMergeFold(tm, blocks, state) ==
    IF blocks = <<>> THEN tm
    ELSE The({TextMergeFold(tm1, Tail(blocks), state) :
                 tm1 \in {TextMergeStep(tm, Head(blocks), state)}})

\* [lines, map, ...]: the text merge, line by line, and style_alias_map
generate_text_merge(blocks, state) ==
    TextMergeFold([lines |-> <<>>, map |-> <<>>, k2a |-> <<>>, counter |-> 1],
                  blocks, state)

NoAnalysis == [exists |-> FALSE]

\* analysis.json for a tree, after extraction and parsing succeeded
analyze(tr) ==
    The({The({[exists |-> TRUE,
               text_merge |-> tm.lines,
               blocks |-> parsed.blocks,
               style_alias_map |-> tm.map,
               paragraph_style_templates |-> build_paragraph_style_templates(parsed.blocks),
               table_style_templates |-> parsed.state.table_style_templates,
               toc_style_templates |-> parsed.state.toc_style_templates] :
                 tm \in {generate_text_merge(parsed.blocks, parsed.state)}}) :
            parsed \in {parse_document_blocks(tr.files[DocPart].body, AnalyzerState0)}})

(***************************************************************************)
(* Edits.  An edit of edits.json is the record                             *)
(*   [action, target_id, semantic_tag, new_text, style_alias, edit_unit,   *)
(*    table_style_alias, row_style_aliases, cell_style_aliases, runs,      *)
(*    toc_level_alias, anchor_block_id]                                    *)
(* where a missing key holds the empty value ("" or <<>>; NoBlock for      *)
(* anchor_block_id, else the number of the block it names).  target_id is  *)
(* [shape, b, r, c, p]: the pattern the id matches and the numbers it      *)
(* captures ("other": no pattern matches).  cell_style_aliases is          *)
(* [nested, items]: a list of lists of aliases when nested, else a list    *)
(* of aliases.                                                             *)
(***************************************************************************)
NoEdits == [exists |-> FALSE]

\* no anchor_block_id
NoBlock == -1

Target(shape, b, r, c, q) == [shape |-> shape, b |-> b, r |-> r, c |-> c, p |-> q]

\* the patterns of validate_edits.py lines 37-42
BlockTarget(b) == Target("block", b, 0, 0, 0)
RowTarget(b, r) == Target("row", b, r, 0, 0)
CellTarget(b, r, c) == Target("cell", b, r, c, 0)
CellParaTarget(b, r, c, q) == Target("cellpara", b, r, c, q)
ColTarget(b, c) == Target("col", b, 0, c, 0)
SdtParaTarget(b, q) == Target("sdtpara", b, 0, 0, q)

(***************************************************************************)
(* validate_edits.py                                                       *)
(***************************************************************************)
PARAGRAPH_TAGS == {"H1", "H2", "H3", "BODY", "LIST", "TITLE", "SUBTITLE", "OTHER"}
TABLE_TAG == "TBL"

\* rows: every w:tr below the table; cells and paragraphs: children
_TableMeta(tbl) ==
    LET rows == DescRows(tbl)
    IN [row_count |-> Len(rows),
        col_counts |-> [ri \in 1..Len(rows) |-> Len(rows[ri].cells)],
        cell_para_counts |->
            [ri \in 1..Len(rows) |->
                [ci \in 1..Len(rows[ri].cells) |-> Len(rows[ri].cells[ci].paras)]]]

\* the w:p children of w:sdtContent
_SdtMeta(sdt) == [para_count |-> Len(sdt.entries)]

\* BlockIndex: id_to_block, table_meta and sdt_meta
HasBlock(blocks, b) == \E i \in 1..Len(blocks) : blocks[i].id = b
BlockOf(blocks, b) == blocks[CHOOSE i \in 1..Len(blocks) : blocks[i].id = b]
HasTableMeta(blocks, b) == HasBlock(blocks, b) /\ BlockOf(blocks, b).type = "tbl"
TableMetaOf(blocks, b) == _TableMeta(BlockOf(blocks, b).xml)
HasSdtMeta(blocks, b) == HasBlock(blocks, b) /\ BlockOf(blocks, b).type = "sdt"

_err(i, tid, check, msg) ==
    [edit_index |-> i, target_id |-> tid, check |-> check, level |-> "error", message |-> msg]

_warn(i, tid, check, msg) ==
    [edit_index |-> i, target_id |-> tid, check |-> check, level |-> "warning", message |-> msg]

\* validate_target_ids as it would be if a cell coordinate were only asked
\* to name a block
TargetIdIssues_cell_of_any_block(edit, i, blocks) ==
    LET tid == edit.target_id
        action == edit.action
        E(msg) == <<_err(i, tid, "target_id", msg)>>
        tm == TableMetaOf(blocks, tid.b)
    IN CASE tid.shape = "block" ->
              IF ~HasBlock(blocks, tid.b) THEN E("Block does not exist") ELSE <<>>
         [] tid.shape = "row" ->
              IF ~HasBlock(blocks, tid.b) THEN E("Block does not exist")
              ELSE IF ~HasTableMeta(blocks, tid.b) THEN E("is not a table")
              ELSE IF action = "delete" /\ tid.r >= tm.row_count THEN E("Row out of range")
              ELSE IF action \notin {"insert_after", "insert_before"} /\ tid.r >= tm.row_count
                   THEN E("Row out of range")
              ELSE <<>>
         [] tid.shape = "cell" ->
              IF ~HasBlock(blocks, tid.b) THEN E("Block does not exist")
              ELSE IF ~HasTableMeta(blocks, tid.b) THEN <<>>
              ELSE IF tid.r >= tm.row_count THEN E("Row out of range")
              ELSE IF tid.c >= tm.col_counts[tid.r + 1] THEN E("Col out of range in row")
              ELSE <<>>
         [] tid.shape = "cellpara" ->
              IF ~HasTableMeta(blocks, tid.b) THEN E("is not a table")
              ELSE IF tid.r >= tm.row_count THEN E("Row out of range")
              ELSE IF tid.c >= tm.col_counts[tid.r + 1] THEN E("Col out of range in row")
              ELSE IF tid.p >= tm.cell_para_counts[tid.r + 1][tid.c + 1]
                   THEN E("Para out of range in cell")
              ELSE <<>>
         [] tid.shape = "col" ->
              IF ~HasTableMeta(blocks, tid.b) THEN E("is not a table")
              ELSE LET first_row_cols == IF tm.col_counts # <<>> THEN tm.col_counts[1] ELSE 0
                   IN IF action = "delete" /\ tid.c >= first_row_cols
                      THEN E("Col out of range") ELSE <<>>
         [] tid.shape = "sdtpara" ->
              IF ~HasBlock(blocks, tid.b) THEN E("Block does not exist")
              ELSE IF ~HasSdtMeta(blocks, tid.b) THEN E("is not an SDT/TOC block")
              ELSE IF tid.p >= _SdtMeta(BlockOf(blocks, tid.b).xml).para_count
                   THEN E("Para out of range")
              ELSE <<>>
         [] OTHER -> E("Unrecognised target_id format")

\* the body of the loop of validate_target_ids for edit i (0-based)
TargetIdIssues(edit, i, blocks) ==
    LET tid == edit.target_id
        action == edit.action
        E(msg) == <<_err(i, tid, "target_id", msg)>>
        tm == TableMetaOf(blocks, tid.b)
    IN CASE tid.shape = "block" ->
              IF ~HasBlock(blocks, tid.b) THEN E("Block does not exist") ELSE <<>>
         [] tid.shape = "row" ->
              IF ~HasBlock(blocks, tid.b) THEN E("Block does not exist")
              ELSE IF ~HasTableMeta(blocks, tid.b) THEN E("is not a table")
              ELSE IF action = "delete" /\ tid.r >= tm.row_count THEN E("Row out of range")
              ELSE IF action \notin {"insert_after", "insert_before"} /\ tid.r >= tm.row_count
                   THEN E("Row out of range")
              ELSE <<>>
         [] tid.shape = "cell" ->
              IF ~HasTableMeta(blocks, tid.b) THEN E("is not a table")
              ELSE IF tid.r >= tm.row_count THEN E("Row out of range")
              ELSE IF tid.c >= tm.col_counts[tid.r + 1] THEN E("Col out of range in row")
              ELSE <<>>
         [] tid.shape = "cellpara" ->
              IF ~HasTableMeta(blocks, tid.b) THEN E("is not a table")
              ELSE IF tid.r >= tm.row_count THEN E("Row out of range")
              ELSE IF tid.c >= tm.col_counts[tid.r + 1] THEN E("Col out of range in row")
              ELSE IF tid.p >= tm.cell_para_counts[tid.r + 1][tid.c + 1]
                   THEN E("Para out of range in cell")
              ELSE <<>>
         [] tid.shape = "col" ->
              IF ~HasTableMeta(blocks, tid.b) THEN E("is not a table")
              ELSE LET first_row_cols == IF tm.col_counts # <<>> THEN tm.col_counts[1] ELSE 0
                   IN IF action = "delete" /\ tid.c >= first_row_cols
                      THEN E("Col out of range") ELSE <<>>
         [] tid.shape = "sdtpara" ->
              IF ~HasBlock(blocks, tid.b) THEN E("Block does not exist")
              ELSE IF ~HasSdtMeta(blocks, tid.b) THEN E("is not an SDT/TOC block")
              ELSE IF tid.p >= _SdtMeta(BlockOf(blocks, tid.b).xml).para_count
                   THEN E("Para out of range")
              ELSE <<>>
         [] OTHER -> E("Unrecognised target_id format")

validate_target_ids(edits, blocks) ==
    Concat([i \in 1..Len(edits) |-> TargetIdIssues(edits[i], i - 1, blocks)])

validate_semantic_tags(edits, blocks) ==
    Concat([i \in 1..Len(edits) |->
        LET edit == edits[i]
            bid == edit.target_id.b
        IN IF /\ edit.action \in {"replace", "delete"}
              /\ edit.target_id.shape = "block"
              /\ HasBlock(blocks, bid)
              /\ BlockOf(blocks, bid).semantic_tag # ""
              /\ edit.semantic_tag # ""
              /\ BlockOf(blocks, bid).semantic_tag # edit.semantic_tag
           THEN <<_warn(i - 1, edit.target_id, "semantic_tag", "Edit tag differs from block tag")>>
           ELSE <<>>])

\* the aliases of cell_style_aliases in the order of lines 318-329
FlatCellAliases(csa) == IF csa.nested THEN Concat(csa.items) ELSE csa.items

validate_style_aliases(edits, alias_map) ==
    Concat([i \in 1..Len(edits) |->
        LET edit == edits[i]
            tid == edit.target_id
            Missing(a) == ~DictHas(alias_map, a)
            cs == FlatCellAliases(edit.cell_style_aliases)
        IN IF edit.action = "delete" THEN <<>>
           ELSE (IF /\ edit.semantic_tag \in PARAGRAPH_TAGS
                    /\ edit.style_alias # NoAlias
                    /\ Missing(edit.style_alias)
                 THEN <<_err(i - 1, tid, "style_alias", "Style alias not in alias map")>>
                 ELSE <<>>)
             \o (IF edit.semantic_tag # TABLE_TAG THEN <<>>
                 ELSE (IF edit.table_style_alias # NoAlias /\ Missing(edit.table_style_alias)
                       THEN <<_err(i - 1, tid, "table_style_alias",
                                   "Table style alias not in alias map")>>
                       ELSE <<>>)
                   \o Concat([j \in 1..Len(edit.row_style_aliases) |->
                         IF Missing(edit.row_style_aliases[j])
                         THEN <<_err(i - 1, tid, "row_style_alias",
                                     "Row style alias not in alias map")>>
                         ELSE <<>>])
                   \o Concat([j \in 1..Len(cs) |->
                         IF Missing(cs[j])
                         THEN <<_err(i - 1, tid, "cell_style_alias",
                                     "Cell style alias not in alias map")>>
                         ELSE <<>>]))])

IsInsert(action) == action \in {"insert_after", "insert_before"}

validate_table_fields(edits) ==
    Concat([i \in 1..Len(edits) |->
        LET edit == edits[i]
            tid == edit.target_id
            eu == edit.edit_unit
            action == edit.action
            rowInsert == eu = "row" /\ IsInsert(action)
            csa == edit.cell_style_aliases
        IN IF edit.semantic_tag # TABLE_TAG THEN <<>>
           ELSE IF action = "delete" /\ eu = "" THEN <<>>
           ELSE (IF eu = "" /\ action # "delete" /\ tid.shape # "block"
                 THEN <<_err(i - 1, tid, "edit_unit", "edit_unit required for table edits")>>
                 ELSE <<>>)
             \o (IF rowInsert /\ edit.row_style_aliases = <<>>
                 THEN <<_err(i - 1, tid, "row_style_aliases",
                             "row_style_aliases required for row INSERT")>>
                 ELSE <<>>)
             \o (IF rowInsert /\ csa.items = <<>>
                 THEN <<_err(i - 1, tid, "cell_style_aliases",
                             "cell_style_aliases required for row INSERT")>>
                 ELSE <<>>)
             \o (IF eu = "table" /\ IsInsert(action) /\ edit.table_style_alias = NoAlias
                 THEN <<_err(i - 1, tid, "table_style_alias",
                             "table_style_alias required for table INSERT")>>
                 ELSE <<>>)
             \o (IF /\ rowInsert
                    /\ Contains(edit.new_text, PIPE)
                    /\ csa.items # <<>> /\ csa.nested
                    /\ Len(Split(edit.new_text, PIPE)) # Len(csa.items[1])
                 THEN <<_err(i - 1, tid, "cell_count",
                             "new_text cells differ from cell_style_aliases[0]")>>
                 ELSE <<>>)])

validate_newlines(edits) ==
    Concat([i \in 1..Len(edits) |->
        LET edit == edits[i]
        IN IF edit.action = "delete" \/ edit.new_text = <<>> THEN <<>>
           ELSE IF edit.semantic_tag = TABLE_TAG THEN <<>>
           ELSE IF Contains(edit.new_text, NL)
           THEN <<_err(i - 1, edit.target_id, "newline", "new_text contains a newline")>>
           ELSE <<>>])

validate_column_counts(edits, blocks) ==
    Concat([i \in 1..Len(edits) |->
        LET edit == edits[i]
            tid == edit.target_id
        IN IF /\ edit.edit_unit = "row" /\ IsInsert(edit.action)
              /\ Contains(edit.new_text, PIPE)
              /\ tid.shape \in {"row", "block"}
              /\ HasTableMeta(blocks, tid.b)
              /\ TableMetaOf(blocks, tid.b).col_counts # <<>>
              /\ Len(Split(edit.new_text, PIPE)) # TableMetaOf(blocks, tid.b).col_counts[1]
           THEN <<_warn(i - 1, tid, "column_count", "new_text cells differ from table columns")>>
           ELSE <<>>])

\* alias_map.get(style_alias, "") as a style key: the payload of an S or T
\* alias is a style key; a trPr or a cell shell is the key of no template
NotAKey == <<"", 0>>
AsStyleKey(payload) == IF payload.tag = "key" THEN payload.key ELSE NotAKey
NoPayload == [tag |-> "none"]
NoTemplate == [run_style_templates |-> <<>>]

validate_runs(edits, alias_map, pst) ==
    Concat([i \in 1..Len(edits) |->
        LET edit == edits[i]
            style_key == AsStyleKey(DictGet(alias_map, edit.style_alias, NoPayload))
            rst_dict == DictGet(pst, style_key, NoTemplate).run_style_templates
            concat == Concat([j \in 1..Len(edit.runs) |-> edit.runs[j].text])
        IN IF edit.runs = <<>> THEN <<>>
           ELSE Concat([j \in 1..Len(edit.runs) |->
                    IF /\ edit.runs[j].run_style # NoAlias
                       /\ rst_dict # <<>>
                       /\ ~DictHas(rst_dict, edit.runs[j].run_style)
                    THEN <<_err(i - 1, edit.target_id, "runs", "run_style not found in RST pool")>>
                    ELSE <<>>])
                \o (IF concat # edit.new_text
                    THEN <<_warn(i - 1, edit.target_id, "runs",
                                 "Concatenated runs text does not match new_text")>>
                    ELSE <<>>)])

validate(an, edits) ==
    LET all_issues ==
            validate_target_ids(edits, an.blocks)
            \o validate_semantic_tags(edits, an.blocks)
            \o validate_style_aliases(edits, an.style_alias_map)
            \o validate_table_fields(edits)
            \o validate_newlines(edits)
            \o validate_column_counts(edits, an.blocks)
            \o validate_runs(edits, an.style_alias_map, an.paragraph_style_templates)
        IsWarning(issue) == issue.level = "warning"
        IsError(issue) == issue.level # "warning"
        errors == SelectSeq(all_issues, IsError)
    IN [exists |-> TRUE,
        valid |-> Len(errors) = 0,
        errors |-> errors,
        warnings |-> SelectSeq(all_issues, IsWarning)]

NoValidation == [exists |-> FALSE]

NoOutput == [exists |-> FALSE]

(***************************************************************************)
(* apply_edits.py, phase A: the mapper.                                    *)
(* A style key is <<"{pStyle}_{ppr_key}">> or <<"T", n>>; EmptyKey is the  *)
(* empty string, which Python takes for false.                             *)
(***************************************************************************)
EmptyKey == <<>>

\* style_alias_map.get(style_alias, "") read as a style key: the payload
\* of an S or T alias is a style key, the payload of a row alias is the
\* trPr (the empty string for a row without one), the payload of a cell
\* alias is a cell shell, which is the key of no template
_resolve_style_key(style_alias, style_alias_map) ==
    IF style_alias = NoAlias THEN EmptyKey
    ELSE LET payload == DictGet(style_alias_map, style_alias, NoPayload)
         IN CASE payload.tag = "none" -> EmptyKey
              [] payload.tag = "key" -> payload.key
              [] payload.tag = "trPr" /\ payload.trPr = 0 -> EmptyKey
              [] OTHER -> NotAKey

\* "AlternateContent", "<w:drawing", "<w:pict", "<wp:anchor", "<wp:inline",
\* "<v:shape", "<v:group": the strings looked for in the XML of a block
_NON_TEXT_INDICATORS ==
    {<<"w", "drawing">>, <<"w", "pict">>, <<"wp", "anchor">>, <<"wp", "inline">>,
     <<"v", "shape">>, <<"v", "group">>}

_has_non_text_content(xml) ==
    /\ xml.kind = "p"
    /\ xml.obj # <<>>
    /\ (xml.obj[3] = "AlternateContent" \/ <<xml.obj[1], xml.obj[3]>> \in _NON_TEXT_INDICATORS)

\* a text put into XML through escape_xml and read back by the parser
InXml(text) == ParseText(escape_xml(text))

\* the first template of a pool
FirstOf(d) == d[1].v

\* rpr_xml.replace("{{content}}", escaped), read back by the parser: every
\* content slot of the template gets the text
FillRun(rpr_xml, text) ==
    [rPr |-> rpr_xml.rPr, text |-> text, more |-> [i \in 1..rpr_xml.slots |-> text]]

_build_run_xml_from_template(new_text, run_style_templates) ==
    IF run_style_templates = <<>> THEN <<>>
    ELSE <<FillRun(FirstOf(run_style_templates).rpr_xml, InXml(new_text))>>

_build_run_xmls_from_spec(runs_spec, run_style_templates) ==
    IF run_style_templates = <<>> THEN <<>>
    ELSE [j \in 1..Len(runs_spec) |->
            FillRun(DictGet(run_style_templates, runs_spec[j].run_style,
                            FirstOf(run_style_templates)).rpr_xml,
                    InXml(runs_spec[j].text))]

\* the run XMLs of a paragraph edit (lines 246-257 and 329-347)
RunXmlsFor(edit, style_key, pst) ==
    LET edit_rst == DictGet(pst, style_key, NoTemplate).run_style_templates
    IN IF edit_rst = <<>> THEN <<>>
       ELSE IF edit.runs # <<>> THEN _build_run_xmls_from_spec(edit.runs, edit_rst)
       ELSE _build_run_xml_from_template(edit.new_text, edit_rst)

NewBlock(action, target_id, style_key, content, run_xmls, edit_unit, rsa, csa) ==
    [action |-> action, target_id |-> target_id, style_key |-> style_key,
     content |-> content, run_xmls |-> run_xmls, edit_unit |-> edit_unit,
     row_style_aliases |-> rsa, cell_style_aliases |-> csa,
     toc_level_alias |-> NoAlias, anchor_block_id |-> NoBlock]

NoCellAliases == [nested |-> FALSE, items |-> <<>>]

\* the body of the loop of generate_new_blocks: the new block of one edit
NewBlockOf(edit, an) ==
    LET action == edit.action
        tid == edit.target_id
        tag == edit.semantic_tag
        eu == edit.edit_unit
        map == an.style_alias_map
        pst == an.paragraph_style_templates
        hasBlock == tid.shape # "other" /\ HasBlock(an.blocks, tid.b)
        tbl_alias == IF edit.table_style_alias # NoAlias THEN edit.table_style_alias
                     ELSE edit.style_alias
        insert_key == LET k == _resolve_style_key(edit.style_alias, map)
                      IN IF k = EmptyKey /\ pst # <<>> THEN pst[1].k ELSE k
        replace_key == LET k == _resolve_style_key(edit.style_alias, map)
                       IN IF k = EmptyKey /\ hasBlock
                          THEN BlockOf(an.blocks, tid.b).style_key ELSE k
        Toc(nb) == [nb EXCEPT !.toc_level_alias = edit.toc_level_alias,
                              !.anchor_block_id = edit.anchor_block_id]
    IN CASE action = "delete" ->
              [NewBlock("delete", tid, EmptyKey, <<>>, <<>>, eu, <<>>, NoCellAliases)
                  EXCEPT !.toc_level_alias = edit.toc_level_alias]
         [] IsInsert(action) /\ (tag = "TBL" \/ eu # "") ->
              NewBlock(action, tid,
                       IF eu = "table" /\ tbl_alias # NoAlias
                       THEN _resolve_style_key(tbl_alias, map) ELSE EmptyKey,
                       edit.new_text, <<>>, eu,
                       edit.row_style_aliases, edit.cell_style_aliases)
         [] IsInsert(action) /\ tag = "TOC" ->
              Toc(NewBlock(action, tid, EmptyKey, edit.new_text, <<>>, "", <<>>,
                           NoCellAliases))
         [] IsInsert(action) ->
              NewBlock(action, tid, insert_key, edit.new_text,
                       IF edit.new_text # <<>> THEN RunXmlsFor(edit, insert_key, pst)
                       ELSE <<>>,
                       "", <<>>, NoCellAliases)
         [] action = "replace" /\ tag = "TOC" ->
              Toc(NewBlock("replace", tid, EmptyKey, edit.new_text, <<>>, "",
                           edit.row_style_aliases, edit.cell_style_aliases))
         [] action = "replace" /\ (tag = "TBL" \/ eu # "") ->
              NewBlock("replace", tid, _resolve_style_key(edit.style_alias, map),
                       edit.new_text, <<>>, eu,
                       edit.row_style_aliases, edit.cell_style_aliases)
         [] OTHER ->
              NewBlock("replace", tid, replace_key, edit.new_text,
                       IF /\ hasBlock
                          /\ edit.new_text # <<>>
                          /\ ~_has_non_text_content(BlockOf(an.blocks, tid.b).xml)
                       THEN RunXmlsFor(edit, replace_key, pst)
                       ELSE <<>>,
                       eu, edit.row_style_aliases, edit.cell_style_aliases)

\* every edit of the universe has one of the four actions, so every edit
\* gives one new block
generate_new_blocks(edits, an) == [i \in 1..Len(edits) |-> NewBlockOf(edits[i], an)]

(***************************************************************************)
(* apply_edits.py, phase B: the marks.  A marked block is the block with   *)
(* the flags and lists apply_mapping_to_blocks attaches to it.             *)
(***************************************************************************)
NoMarks ==
    [deleted |-> FALSE, replaced |-> FALSE, has_replacements |-> FALSE,
     replacements |-> <<>>, inserts_after |-> <<>>, inserts_before |-> <<>>,
     row_deletions |-> <<>>, col_deletions |-> <<>>, para_deletions |-> <<>>,
     col_inserts_after |-> <<>>, col_inserts_before |-> <<>>,
     sdt_entry_deletions |-> <<>>, sdt_entry_inserts |-> <<>>]

\* blocks[idx]["_replaced"] = True; blocks[idx].setdefault("_replacements", [])
TouchTable(m) == [m EXCEPT !.replaced = TRUE, !.has_replacements = TRUE]

\* the aliases of a column insert: [[CS0], [CS1]] is flattened to [CS0, CS1]
ColumnAliases(csa) ==
    IF csa.items # <<>> /\ csa.nested
    THEN LET rows == SelectSeq(csa.items, LAMBDA row : row # <<>>)
         IN [i \in 1..Len(rows) |-> rows[i][1]]
    ELSE csa.items

InsertSpec(nb) ==
    [style_key |-> nb.style_key, content |-> nb.content,
     original_target_id |-> nb.target_id, edit_unit |-> nb.edit_unit,
     row_style_aliases |-> nb.row_style_aliases,
     cell_style_aliases |-> nb.cell_style_aliases]

ColumnInsertSpec(nb) ==
    [col_idx |-> nb.target_id.c, content |-> nb.content,
     original_target_id |-> nb.target_id,
     cell_style_aliases |-> ColumnAliases(nb.cell_style_aliases),
     style_key |-> nb.style_key]

\* the marks of the target block after one new block (lines 466-637)
MarkBlock(m, nb, block) ==
    LET tid == nb.target_id
        eu == nb.edit_unit
        is_table == block.type = "tbl"
        row_match == tid.shape = "row"
        col_match == tid.shape = "col"
        is_row_del == IF eu # "" THEN eu = "row" ELSE is_table /\ row_match
        is_col == IF eu # "" THEN eu = "column" ELSE is_table /\ col_match
        is_sdt_para == block.type = "sdt" /\ tid.shape = "sdtpara"
        EntryInsert(after) ==
            [para_idx |-> tid.p, content |-> nb.content,
             toc_level_alias |-> nb.toc_level_alias,
             anchor_block_id |-> nb.anchor_block_id,
             insert_after |-> after, insert_order |-> Len(m.sdt_entry_inserts)]
    IN CASE nb.action = "replace" ->
              [m EXCEPT !.replaced = TRUE, !.has_replacements = TRUE,
                        !.replacements = Append(@,
                            [style_key |-> nb.style_key, content |-> nb.content,
                             original_target_id |-> tid, edit_unit |-> eu,
                             run_xmls |-> nb.run_xmls,
                             toc_level_alias |-> nb.toc_level_alias,
                             anchor_block_id |-> nb.anchor_block_id])]
         [] IsInsert(nb.action) /\ is_sdt_para ->
              TouchTable([m EXCEPT !.sdt_entry_inserts =
                             Append(@, EntryInsert(nb.action = "insert_after"))])
         [] nb.action = "delete" /\ is_sdt_para ->
              TouchTable([m EXCEPT !.sdt_entry_deletions = Append(@, tid.p)])
         [] nb.action = "delete" ->
              IF is_row_del /\ row_match
              THEN TouchTable([m EXCEPT !.row_deletions = Append(@, tid.r)])
              ELSE IF is_col /\ col_match
              THEN TouchTable([m EXCEPT !.col_deletions = Append(@, tid.c)])
              ELSE IF is_table /\ tid.shape = "cellpara"
              THEN TouchTable([m EXCEPT !.para_deletions = Append(@,
                       [row_idx |-> tid.r, col_idx |-> tid.c, para_idx |-> tid.p])])
              ELSE [m EXCEPT !.deleted = TRUE]
         [] nb.action = "insert_after" ->
              IF is_col /\ col_match
              THEN TouchTable([m EXCEPT !.col_inserts_after = Append(@, ColumnInsertSpec(nb))])
              ELSE [m EXCEPT !.inserts_after = Append(@, InsertSpec(nb))]
         [] OTHER ->
              IF is_col /\ col_match
              THEN TouchTable([m EXCEPT !.col_inserts_before = Append(@, ColumnInsertSpec(nb))])
              ELSE [m EXCEPT !.inserts_before = Append(@, InsertSpec(nb))]

\* One step of the loop of apply_mapping_to_blocks; a new block whose block
\* id is not an id of the analysis is skipped with a warning.
RECURSIVE MarkAll(_, _, _)
MarkAll(marks, blocks, new_blocks) ==
    IF new_blocks = <<>> THEN marks
    ELSE LET nb == Head(new_blocks)
             known == nb.target_id.shape # "other" /\ HasBlock(blocks, nb.target_id.b)
             idx == CHOOSE i \in 1..Len(blocks) : blocks[i].id = nb.target_id.b
         IN The({MarkAll(marked, blocks, Tail(new_blocks)) :
                    marked \in {IF known
                                THEN [marks EXCEPT ![idx] = MarkBlock(@, nb, blocks[idx])]
                                ELSE marks}})

\* the blocks, each with its marks: [block, m]
apply_mapping_to_blocks(blocks, new_blocks) ==
    The({[i \in 1..Len(blocks) |-> [block |-> blocks[i], m |-> marks[i]]] :
            marks \in {MarkAll([i \in 1..Len(blocks) |-> NoMarks], blocks, new_blocks)}})

(***************************************************************************)
(* apply_edits.py, phase B: building paragraphs, cells and tables.         *)
(***************************************************************************)
Max(a, b) == IF a >= b THEN a ELSE b
Min(a, b) == IF a <= b THEN a ELSE b

\* an uncaught exception of the assembly
Raise(what) == [kind |-> "raise", what |-> what]

\* <w:p>{ppr}{runs}</w:p> as the parser reads it; an empty ppr_xml_template
\* gives an empty w:pPr, whose paragraph has the style Normal
ParaFrom(template, runs) ==
    Para(template.ppr_xml_template[1], template.ppr_xml_template[2], runs)

\* <w:p><w:r><w:t>{escaped}</w:t></w:r></w:p>
BarePara(text) == Para("Normal", <<>>, <<Run(0, InXml(text))>>)

\* the run of a template pool for a text: the first run template, or a run
\* without properties
TemplateRun(rst_dict, text) ==
    IF rst_dict # <<>> THEN FillRun(FirstOf(rst_dict).rpr_xml, InXml(text))
    ELSE Run(0, InXml(text))

\* the text of an alias ("CS0"): read as a list it is a list of characters,
\* none of which is an alias of the map
UnknownAlias == <<"?", 0>>
AliasChars(alias) == [k \in 1..(Len(alias[1]) + Len(Str(alias[2]))) |-> UnknownAlias]

\* cell_style_aliases[i] read as a list of aliases
AliasRow(csa, i) == IF csa.nested THEN csa.items[i] ELSE AliasChars(csa.items[i])

\* seq[i] if i < len(seq) else (seq[-1] if seq else default), i 0-based
AtOrLast(s, i, default) ==
    IF i < Len(s) THEN s[i + 1] ELSE IF s # <<>> THEN s[Len(s)] ELSE default

\* seq[i] if i < len(seq) else default, i 0-based
AtOr(s, i, default) == IF i < Len(s) THEN s[i + 1] ELSE default

\* two values of the alias map or of a row template are the same string
IsEmptyPayload(p) == p.tag = "none" \/ (p.tag = "trPr" /\ p.trPr = 0)
SamePayload(p, q) == (IsEmptyPayload(p) /\ IsEmptyPayload(q)) \/ p = q

_get_table_total_width(tbl) == IF tbl.tblW >= 0 THEN tbl.tblW ELSE 9000

_extract_column_widths(grid, num_cols, total_width) ==
    LET default_width == total_width \div Max(num_cols, 1)
    IN [i \in 1..num_cols |-> IF i <= Len(grid) THEN grid[i] ELSE default_width]

\* CJK, Hangul and fullwidth characters count 2, the others 1
CharWidth(cp) ==
    IF \/ (4352 <= cp /\ cp <= 4607)
       \/ (12288 <= cp /\ cp <= 40959)
       \/ (44032 <= cp /\ cp <= 55215)
       \/ (63744 <= cp /\ cp <= 64255)
       \/ (65281 <= cp /\ cp <= 65376)
    THEN 2 ELSE 1

_estimate_text_width(text) == Max(SumSeq([i \in 1..Len(text) |-> CharWidth(text[i])]), 1)

\* one paragraph, whose w:t holds the text it is given (Element.text)
_minimal_cell(escaped_text) ==
    Cell(0, -1, <<Para("Normal", <<>>, <<Run(0, escaped_text)>>)>>, <<>>)

_build_cell_from_alias(cs_alias, text, col_width, style_alias_map, cell_para_styles) ==
    LET tc_xml == DictGet(style_alias_map, cs_alias, NoPayload)
        lines == Split(text, NL)
        ps0 == cell_para_styles[1]
        styled == cell_para_styles # <<>> /\ ps0.run_style_templates # <<>>
        LinePara(line) ==
            IF styled
            THEN ParaFrom(ps0, <<FillRun(FirstOf(ps0.run_style_templates).rpr_xml, InXml(line))>>)
            ELSE BarePara(line)
        cell == IF tc_xml.tag = "tc"
                THEN Cell(tc_xml.tcPr, -1, [i \in 1..Len(lines) |-> LinePara(lines[i])],
                          tc_xml.inner)
                ELSE _minimal_cell(escape_xml(text))
    IN [cell EXCEPT !.tcW = col_width]

\* A new row with the row style applied (lines 1464-1487): the value of the
\* alias is parsed and put in as the first child of the row.  A trPr is the
\* properties of the row; a cell shell is a w:tc child, with no paragraph;
\* a style key is no XML and is dropped.
_apply_row_style(row_style_alias, style_alias_map) ==
    LET tr_pr_xml == DictGet(style_alias_map, row_style_alias, NoPayload)
    IN CASE tr_pr_xml.tag = "trPr" -> Row(tr_pr_xml.trPr, <<>>)
         [] tr_pr_xml.tag = "tc" -> Row(0, <<Cell(tr_pr_xml.tcPr, -1, <<>>, tr_pr_xml.inner)>>)
         [] OTHER -> Row(0, <<>>)

\* the cell templates of the first row of the table template whose trPr is
\* the value of the row alias (lines 1005-1019 and 1627-1655)
TstCells(tst, rs_trpr) ==
    LET hits == {i \in 1..Len(tst.row_styles) : SamePayload(tst.row_styles[i], rs_trpr)}
    IN IF hits = {} THEN <<>>
       ELSE tst.cell_style_templates[CHOOSE i \in hits : \A j \in hits : i <= j]

CellParaStyles(tst_cells, col_idx) ==
    IF tst_cells = <<>> THEN <<>>
    ELSE tst_cells[Min(col_idx, Len(tst_cells) - 1) + 1].paragraph_styles

\* [c.strip() for c in content.split(sep)] if content else []
StrippedFields(content, sep) ==
    IF content = <<>> THEN <<>>
    ELSE LET fields == Split(content, sep)
         IN [i \in 1..Len(fields) |-> Strip(fields[i])]

NoTst == [row_styles |-> <<>>, cell_style_templates |-> <<>>]

_build_table_from_template(template, content, row_style_aliases, csa, style_alias_map) ==
    LET lines == Split(Strip(content), NL)
        rows_content == [i \in 1..Len(lines) |->
                            LET cells == Split(lines[i], PIPE)
                            IN [j \in 1..Len(cells) |-> Strip(cells[j])]]
        num_cols == CHOOSE n \in {Len(rows_content[i]) : i \in 1..Len(rows_content)} :
                        \A i \in 1..Len(rows_content) : Len(rows_content[i]) <= n
        root == template.tbl_xml_template
        col_widths == _extract_column_widths(root.grid, num_cols, _get_table_total_width(root))
        NewRow(row_idx) ==
            LET rs_alias == AtOrLast(row_style_aliases, row_idx, NoAlias)
                styled == _apply_row_style(rs_alias, style_alias_map)
                tst_cells == IF rs_alias = NoAlias THEN <<>>
                             ELSE TstCells(template, DictGet(style_alias_map, rs_alias, NoPayload))
                row_cs == IF csa.items = <<>> THEN <<>>
                          ELSE AliasRow(csa, Min(row_idx + 1, Len(csa.items)))
            IN [styled EXCEPT !.cells = @ \o
                   [c \in 1..num_cols |->
                       _build_cell_from_alias(
                           AtOrLast(row_cs, c - 1, NoAlias),
                           AtOr(rows_content[row_idx + 1], c - 1, <<>>),
                           AtOrLast(col_widths, c - 1, 9000),
                           style_alias_map,
                           CellParaStyles(tst_cells, c - 1))]]
    IN [root EXCEPT !.rows = [i \in 1..Len(rows_content) |-> NewRow(i - 1)]]

\* The XML of a new block, as a list of no or one element.  An insert spec
\* carries no run_xmls (lines 576-583), so the paragraph is built from the
\* first run template of the paragraph template.
_build_block_xml(block_spec, pst, tst, style_alias_map) ==
    LET style_key == block_spec.style_key
        content == block_spec.content
    IN IF DictHas(tst, style_key)
       THEN <<_build_table_from_template(DictGet(tst, style_key, NoTst), content,
                                         block_spec.row_style_aliases,
                                         block_spec.cell_style_aliases, style_alias_map)>>
       ELSE IF ~DictHas(pst, style_key) /\ pst = <<>> THEN <<>>
       ELSE LET template == IF DictHas(pst, style_key)
                            THEN DictGet(pst, style_key, NoTemplate) ELSE FirstOf(pst)
            IN <<ParaFrom(template, <<TemplateRun(template.run_style_templates, content)>>)>>

\* [ln.strip() for ln in content.split("\n") if ln.strip()]
StrippedLines(content) ==
    LET lines == Split(content, NL)
        kept == SelectSeq(lines, LAMBDA ln : ~IsBlank(ln))
    IN [i \in 1..Len(kept) |-> Strip(kept[i])]

\* the paragraphs _append_paragraphs_from_content appends to body_parts
_append_paragraphs_from_content(template, content) ==
    LET _build_para(text) == ParaFrom(template, <<TemplateRun(template.run_style_templates, text)>>)
    IN IF Contains(content, NL) /\ ~Contains(content, PIPE)
       THEN [i \in 1..Len(StrippedLines(content)) |-> _build_para(StrippedLines(content)[i])]
       ELSE <<_build_para(content)>>

\* the first w:t of the runs gets the text, the others the empty text
SetFirstText(p, text) ==
    [p EXCEPT !.runs = [j \in 1..Len(p.runs) |->
        [p.runs[j] EXCEPT !.text = IF j = 1 THEN text ELSE <<>>,
                          !.more = [k \in 1..Len(@) |-> <<>>]]]]

\* Element.text takes the text as it is
_replace_text_preserving_structure(original_xml, new_text) == SetFirstText(original_xml, new_text)

(***************************************************************************)
(* apply_edits.py, phase B: the table operations.  Each takes the table    *)
(* and gives the table back; an element that is no table has no w:tr and   *)
(* comes back as it is.                                                    *)
(***************************************************************************)
\* deepcopy of the paragraph, the first run kept with the text
_clone_paragraph_with_text(source_para, escaped_text) ==
    [source_para EXCEPT !.runs =
        IF source_para.runs = <<>> THEN <<Run(0, escaped_text)>>
        ELSE <<[source_para.runs[1] EXCEPT !.text = escaped_text, !.more = <<>>]>>]

_table_replace_paragraph(table_xml, r_idx, c_idx, p_idx, new_text, run_xmls) ==
    IF table_xml.kind # "tbl" \/ r_idx >= Len(DescRowPaths(table_xml)) THEN table_xml
    ELSE LET rpath == DescRowPaths(table_xml)[r_idx + 1]
             row == RowAt(table_xml, rpath)
         IN IF c_idx >= Len(DescCellPaths(row)) THEN table_xml
            ELSE LET cpath == DescCellPaths(row)[c_idx + 1]
                     target_cell == CellAt(row, cpath)
                 IN IF p_idx >= Len(target_cell.paras) THEN table_xml
                    ELSE LET target_para == target_cell.paras[p_idx + 1]
                             kept == SelectSeq(Split(new_text, NL), LAMBDA ln : ~IsBlank(ln))
                             lines == IF kept = <<>> THEN << <<>> >> ELSE kept
                             first == SetFirstText(target_para, escape_xml(lines[1]))
                             new_paras ==
                                 IF run_xmls # <<>>
                                 THEN <<[target_para EXCEPT !.runs = run_xmls]>>
                                 ELSE IF Contains(new_text, NL)
                                 THEN <<first>> \o
                                      [i \in 1..(Len(lines) - 1) |->
                                          _clone_paragraph_with_text(first, escape_xml(lines[i + 1]))]
                                 ELSE <<SetFirstText(target_para, escape_xml(new_text))>>
                             new_cell == [target_cell EXCEPT !.paras =
                                             SubSeq(@, 1, p_idx) \o new_paras
                                             \o SubSeq(@, p_idx + 2, Len(@))]
                         IN SetRow(table_xml, rpath, SetCell(row, cpath, new_cell))

_table_add_row(table_xml, after_r_idx, row_contents, row_style_alias, cell_style_aliases, tst, table_style_key, style_alias_map) ==
    IF table_xml.kind # "tbl" \/ after_r_idx >= Len(DescRowPaths(table_xml)) THEN table_xml
    ELSE LET rpath == DescRowPaths(table_xml)[after_r_idx + 1]
             target_row == RowAt(table_xml, rpath)
             num_cols == IF cell_style_aliases # <<>> \/ row_contents # <<>>
                         THEN Max(Len(cell_style_aliases), Len(row_contents))
                         ELSE Len(target_row.cells)
             col_widths == _extract_column_widths(table_xml.grid, num_cols,
                                                  _get_table_total_width(table_xml))
             tst_cells == IF DictHas(tst, table_style_key)
                          THEN TstCells(DictGet(tst, table_style_key, NoTst),
                                        DictGet(style_alias_map, row_style_alias, NoPayload))
                          ELSE <<>>
             styled == _apply_row_style(row_style_alias, style_alias_map)
             new_row == [styled EXCEPT !.cells = @ \o
                            [c \in 1..num_cols |->
                                _build_cell_from_alias(
                                    AtOrLast(cell_style_aliases, c - 1, NoAlias),
                                    AtOr(row_contents, c - 1, <<>>),
                                    col_widths[c], style_alias_map,
                                    CellParaStyles(tst_cells, c - 1))]]
         IN InsertRowAfter(table_xml, rpath, new_row)

_table_delete_row(table_xml, r_idx) ==
    IF r_idx >= Len(DescRowPaths(table_xml)) THEN table_xml
    ELSE RemoveRow(table_xml, DescRowPaths(table_xml)[r_idx + 1])

\* the rows are the children of the table
_table_delete_column(table_xml, c_idx) ==
    IF table_xml.rows = <<>> THEN table_xml
    ELSE IF c_idx >= Len(table_xml.rows[1].cells) THEN table_xml
    ELSE IF Len(table_xml.rows[1].cells) <= 1 THEN table_xml
    ELSE [table_xml EXCEPT
            !.rows = [r \in 1..Len(@) |->
                         IF c_idx < Len(@[r].cells)
                         THEN [@[r] EXCEPT !.cells = RemoveAt(@, c_idx + 1)]
                         ELSE @[r]],
            !.grid = IF c_idx < Len(@) THEN RemoveAt(@, c_idx + 1) ELSE @]

_table_delete_paragraph(table_xml, row_idx, col_idx, para_idx) ==
    IF row_idx >= Len(DescRowPaths(table_xml)) THEN table_xml
    ELSE LET rpath == DescRowPaths(table_xml)[row_idx + 1]
             row == RowAt(table_xml, rpath)
         IN IF col_idx >= Len(DescCellPaths(row)) THEN table_xml
            ELSE LET cpath == DescCellPaths(row)[col_idx + 1]
                     target_cell == CellAt(row, cpath)
                 IN IF para_idx >= Len(target_cell.paras) THEN table_xml
                    ELSE IF Len(target_cell.paras) <= 1 THEN table_xml
                    ELSE SetRow(table_xml, rpath,
                             SetCell(row, cpath,
                                 [target_cell EXCEPT !.paras = RemoveAt(@, para_idx + 1)]))

\* tcW of every cell of every child row is set from col_widths; a cell
\* without w:tcW (tcW = -1) is left alone
_update_all_cell_widths(root, col_widths) ==
    [root EXCEPT !.rows = [r \in 1..Len(@) |->
        [@[r] EXCEPT !.cells = [c \in 1..Len(@) |->
            IF @[c].tcW = -1 THEN @[c]
            ELSE [@[c] EXCEPT !.tcW = AtOrLast(col_widths, c - 1, 9000)]]]]]

\* the widths of all columns after the insertion (lines 1207-1241), or the
\* ZeroDivisionError of line 1231.  w and remaining are not negative, so
\* int(w * scale) is the floor of w * remaining / original_total.
ColumnWidthsAfter(table_xml, after_col_idx, col_contents) ==
    LET current_col_count == Len(table_xml.rows[1].cells)
        total_width == _get_table_total_width(table_xml)
        insert_pos == IF after_col_idx >= 0 THEN after_col_idx + 1 ELSE 0
        original_gc_widths == _extract_column_widths(table_xml.grid, current_col_count,
                                                     total_width)
        min_col_w == 400
        new_col_max_chars ==
            IF col_contents = <<>> THEN 2
            ELSE LET ws == {_estimate_text_width(col_contents[i]) : i \in 1..Len(col_contents)}
                 IN CHOOSE w \in ws : \A v \in ws : v <= w
        capped == Min(Max(new_col_max_chars * 200 + 200, min_col_w), (total_width * 3) \div 10)
        original_total == IF SumSeq(original_gc_widths) # 0 THEN SumSeq(original_gc_widths)
                          ELSE total_width
        shrink == total_width - capped < min_col_w * current_col_count
        remaining == IF shrink THEN (total_width * 7) \div 10 ELSE total_width - capped
        new_col_width == IF shrink THEN total_width - remaining ELSE capped
        scaled == [i \in 1..Len(original_gc_widths) |->
                      Max(min_col_w, (original_gc_widths[i] * remaining) \div original_total)]
        rounding_diff == remaining - SumSeq(scaled)
        max_i == CHOOSE i \in 1..Len(scaled) :
                     /\ \A j \in 1..Len(scaled) : scaled[j] <= scaled[i]
                     /\ \A j \in 1..(i - 1) : scaled[j] < scaled[i]
        adjusted_widths == IF scaled = <<>> THEN <<>>
                           ELSE [scaled EXCEPT ![max_i] = @ + rounding_diff]
    IN IF original_total = 0 THEN Raise("ZeroDivisionError")
       ELSE [kind |-> "widths", new_col_width |-> new_col_width, insert_pos |-> insert_pos,
             all_widths |-> InsertAt(adjusted_widths, insert_pos, new_col_width)]

_table_add_column(table_xml, after_col_idx, col_contents, cell_style_aliases, style_alias_map) ==
    IF table_xml.rows = <<>> THEN table_xml
    ELSE IF after_col_idx >= Len(table_xml.rows[1].cells) THEN table_xml
    ELSE LET w == ColumnWidthsAfter(table_xml, after_col_idx, col_contents)
             grid1 == InsertAt(table_xml.grid, w.insert_pos, w.new_col_width)
             NewCell(r_idx) ==
                 _build_cell_from_alias(AtOrLast(cell_style_aliases, r_idx, NoAlias),
                                        AtOr(col_contents, r_idx, <<>>),
                                        w.new_col_width, style_alias_map, <<>>)
         IN IF w.kind = "raise" THEN w
            ELSE _update_all_cell_widths(
                    [table_xml EXCEPT
                        !.grid = [i \in 1..Len(grid1) |->
                                     IF i <= Len(w.all_widths) THEN w.all_widths[i]
                                     ELSE grid1[i]],
                        !.rows = [r \in 1..Len(@) |->
                                     [@[r] EXCEPT !.cells = InsertAt(@, w.insert_pos, NewCell(r - 1))]]],
                    w.all_widths)

\* the paragraph appended to a cell of the column (lines 1326-1352)
ColumnParagraph(cell_text, style_key, pst) ==
    IF DictHas(pst, style_key)
    THEN LET template == DictGet(pst, style_key, NoTemplate)
         IN ParaFrom(template, <<TemplateRun(template.run_style_templates, cell_text)>>)
    ELSE BarePara(cell_text)

\* rows: every w:tr below the table; cells: the children of the row
RECURSIVE InsertColumnParagraphs(_, _, _, _, _, _)
InsertColumnParagraphs(table_xml, r, col_idx, col_contents, style_key, pst) ==
    IF r > Len(DescRowPaths(table_xml)) THEN table_xml
    ELSE LET rpath == DescRowPaths(table_xml)[r]
             row == RowAt(table_xml, rpath)
             cell_text == AtOr(col_contents, r - 1, <<>>)
         IN The({InsertColumnParagraphs(t, r + 1, col_idx, col_contents, style_key, pst) :
                t \in {IF col_idx >= Len(row.cells) \/ cell_text = <<>> THEN table_xml
                       ELSE SetRow(table_xml, rpath,
                                [row EXCEPT !.cells[col_idx + 1].paras =
                                    Append(@, ColumnParagraph(cell_text, style_key, pst))])}})

_table_insert_column_paragraph(table_xml, col_idx, col_contents, style_key, pst) ==
    InsertColumnParagraphs(table_xml, 1, col_idx, col_contents, style_key, pst)

(***************************************************************************)
(* apply_edits.py, phase B: the assembly.                                  *)
(***************************************************************************)
\* a key of sorted(): a tuple of numbers, compared from the left
KeyLess(a, b) ==
    \E i \in 1..Len(a) : a[i] < b[i] /\ \A j \in 1..(i - 1) : a[j] = b[j]

\* sorted(s, key=...), keys[i] the key of s[i]: stable.  With reverse=True
\* the order is that of the negated keys, elements of equal keys staying
\* in their order.
SortedByKey(s, keys) ==
    LET pos(i) == 1 + Cardinality({j \in 1..Len(s) :
                        KeyLess(keys[j], keys[i]) \/ (keys[j] = keys[i] /\ j < i)})
    IN [k \in 1..Len(s) |-> s[CHOOSE i \in 1..Len(s) : pos(i) = k]]

Descending(idxs) == SortedByKey(idxs, [i \in 1..Len(idxs) |-> <<-idxs[i]>>])

ByColIdx(col_inserts) ==
    SortedByKey(col_inserts, [i \in 1..Len(col_inserts) |-> <<col_inserts[i].col_idx>>])

RECURSIVE DeleteRows(_, _)
DeleteRows(table_xml, r_idxs) ==
    IF r_idxs = <<>> THEN table_xml
    ELSE The({DeleteRows(t, Tail(r_idxs)) : t \in {_table_delete_row(table_xml, Head(r_idxs))}})

RECURSIVE DeleteColumns(_, _)
DeleteColumns(table_xml, c_idxs) ==
    IF c_idxs = <<>> THEN table_xml
    ELSE The({DeleteColumns(t, Tail(c_idxs)) :
                 t \in {_table_delete_column(table_xml, Head(c_idxs))}})

RECURSIVE DeleteParagraphs(_, _)
DeleteParagraphs(table_xml, pds) ==
    IF pds = <<>> THEN table_xml
    ELSE The({DeleteParagraphs(t, Tail(pds)) :
                 t \in {_table_delete_paragraph(table_xml, Head(pds).row_idx,
                                                Head(pds).col_idx, Head(pds).para_idx)}})

\* lines 2192-2238; before = 1 for the inserts before a column, else 0
RECURSIVE InsertColumns(_, _, _, _, _)
InsertColumns(table_xml, col_inserts, before, pst, style_alias_map) ==
    IF table_xml.kind = "raise" \/ col_inserts = <<>> THEN table_xml
    ELSE LET col_insert == Head(col_inserts)
             col_contents == StrippedFields(col_insert.content, NL)
         IN The({InsertColumns(t, Tail(col_inserts), before, pst, style_alias_map) :
                t \in {IF col_insert.cell_style_aliases # <<>>
                       THEN _table_add_column(table_xml, col_insert.col_idx - before,
                                              col_contents, col_insert.cell_style_aliases,
                                              style_alias_map)
                       ELSE _table_insert_column_paragraph(
                                table_xml,
                                IF before = 1 THEN Max(0, col_insert.col_idx - 1)
                                ELSE col_insert.col_idx,
                                col_contents, col_insert.style_key, pst)}})

RunTotal(paras) == SumSeq([i \in 1..Len(paras) |-> Len(paras[i].runs)])

\* the first w:t of the paragraphs gets the text when free, every other the
\* empty text
SetParasText(paras, text, free) ==
    [i \in 1..Len(paras) |->
        [paras[i] EXCEPT !.runs = [j \in 1..Len(@) |->
            [@[j] EXCEPT !.text =
                             IF free /\ j = 1 /\ RunTotal(SubSeq(paras, 1, i - 1)) = 0
                             THEN text ELSE <<>>,
                         !.more = [k \in 1..Len(@) |-> <<>>]]]]]

\* the runs of the cells of a nested table that come before its cell (k, j)
InnerRunsBefore(inner, k, j) ==
    SumSeq([a \in 1..(k - 1) |->
               SumSeq([b \in 1..Len(inner[a].cells) |-> RunTotal(inner[a].cells[b].paras)])])
    + SumSeq([b \in 1..(j - 1) |-> RunTotal(inner[k].cells[b].paras)])

\* lines 2286-2292: the first of cell.findall(".//w:t") gets the text, the
\* others the empty text
SetCellText(cell, text) ==
    [cell EXCEPT
        !.paras = SetParasText(@, text, TRUE),
        !.inner = [k \in 1..Len(@) |->
            [@[k] EXCEPT !.cells = [j \in 1..Len(@) |->
                [@[j] EXCEPT !.paras =
                    SetParasText(@, text,
                        RunTotal(cell.paras) + InnerRunsBefore(cell.inner, k, j) = 0)]]]]]

\* the replacement of the texts of a row (lines 2267-2295)
ReplaceRowText(table_xml, r_idx, content) ==
    IF r_idx >= Len(DescRowPaths(table_xml)) THEN table_xml
    ELSE LET rpath == DescRowPaths(table_xml)[r_idx + 1]
             row_contents == StrippedFields(content, PIPE)
         IN SetRow(table_xml, rpath,
                [RowAt(table_xml, rpath) EXCEPT !.cells = [ci \in 1..Len(@) |->
                    SetCellText(@[ci], AtOr(row_contents, ci - 1, <<>>))]])

RECURSIVE ApplyReplacements(_, _)
ApplyReplacements(table_xml, replacements) ==
    IF table_xml.kind = "raise" \/ replacements = <<>> THEN table_xml
    ELSE LET replacement == Head(replacements)
             tid == replacement.original_target_id
         IN The({ApplyReplacements(t, Tail(replacements)) :
                t \in {CASE tid.shape = "cellpara" ->
                               _table_replace_paragraph(table_xml, tid.r, tid.c, tid.p,
                                                        replacement.content,
                                                        replacement.run_xmls)
                         [] tid.shape = "row" ->
                               ReplaceRowText(table_xml, tid.r, replacement.content)
                         [] OTHER -> table_xml}})

\* sorted(para_dels, key=(row_idx, col_idx, para_idx), reverse=True)
ParaDeletionsDescending(pds) ==
    SortedByKey(pds, [i \in 1..Len(pds) |->
                        <<-pds[i].row_idx, -pds[i].col_idx, -pds[i].para_idx>>])

\* the table of a marked table block (lines 2165-2297), or the exception
AssembleTable(block, m, pst, style_alias_map) ==
    The({ApplyReplacements(t5, m.replacements) :
        t5 \in {InsertColumns(t4, ByColIdx(m.col_inserts_before), 1, pst, style_alias_map) :
        t4 \in {InsertColumns(t3, ByColIdx(m.col_inserts_after), 0, pst, style_alias_map) :
        t3 \in {DeleteParagraphs(t2, ParaDeletionsDescending(m.para_deletions)) :
        t2 \in {DeleteColumns(t1, Descending(m.col_deletions)) :
        t1 \in {DeleteRows(block.xml, Descending(m.row_deletions))}}}}}})

\* the elements a block-level insert adds to body_parts (lines 2137-2155
\* and 2469-2489)
BlockInsertXml(insert, pst, tst, style_alias_map) ==
    IF Contains(insert.content, NL) /\ ~Contains(insert.content, PIPE)
    THEN Concat([i \in 1..Len(StrippedLines(insert.content)) |->
            _build_block_xml([insert EXCEPT !.content = StrippedLines(insert.content)[i]],
                             pst, tst, style_alias_map)])
    ELSE _build_block_xml(insert, pst, tst, style_alias_map)

\* One step of the loop over _inserts_after (lines 2405-2489).  A row insert
\* changes the last element of body_parts.
InsertAfter(body_parts, insert, block, pst, tst, style_alias_map) ==
    LET tid == insert.original_target_id
        row_add_match == tid.shape = "row"
        is_row_add == IF insert.edit_unit # "" THEN insert.edit_unit = "row"
                      ELSE row_add_match
        \* re.search(r"r(\d+)", target_id) finds the row of a cell target
        has_row == tid.shape \in {"row", "cell", "cellpara"}
        csa == insert.cell_style_aliases
        cell_style_aliases == IF csa.items = <<>> THEN <<>> ELSE AliasRow(csa, 1)
        row_style_alias == AtOr(insert.row_style_aliases, 0, NoAlias)
    IN IF is_row_add
       THEN IF has_row /\ cell_style_aliases # <<>> /\ body_parts # <<>>
            THEN [body_parts EXCEPT ![Len(body_parts)] =
                     _table_add_row(@, tid.r, StrippedFields(insert.content, PIPE),
                                    row_style_alias, cell_style_aliases,
                                    tst, block.style_key, style_alias_map)]
            ELSE body_parts
       ELSE IF tid.shape = "cellpara" THEN body_parts
       ELSE body_parts \o BlockInsertXml(insert, pst, tst, style_alias_map)

\* the loop over _inserts_after run from the last insert to the first
RECURSIVE InsertsAfter_last_first(_, _, _, _, _, _)
InsertsAfter_last_first(body_parts, inserts, block, pst, tst, style_alias_map) ==
    IF inserts = <<>> THEN body_parts
    ELSE The({InsertsAfter_last_first(parts, SubSeq(inserts, 1, Len(inserts) - 1), block,
                                      pst, tst, style_alias_map) :
                 parts \in {InsertAfter(body_parts, inserts[Len(inserts)], block, pst, tst,
                                        style_alias_map)}})

RECURSIVE InsertsAfter(_, _, _, _, _, _)
InsertsAfter(body_parts, inserts, block, pst, tst, style_alias_map) ==
    IF inserts = <<>> THEN body_parts
    ELSE The({InsertsAfter(parts, Tail(inserts), block, pst, tst, style_alias_map) :
                 parts \in {InsertAfter(body_parts, Head(inserts), block, pst, tst,
                                        style_alias_map)}})

(***************************************************************************)
(* apply_edits.py, phase B: the entries of a structured tag and the        *)
(* bookmarks of their anchors.                                             *)
(***************************************************************************)
\* f"_Toc{n:08d}"
Chars__Toc == <<95, 84, 111, 99>>
TocAnchor(n) ==
    Chars__Toc \o [i \in 1..(8 - Len(Decimal(n))) |-> 48] \o Decimal(n)

IsNumberChar(ch) == ch \in 48..57 \/ ch = 45

\* the length of the longest prefix of s of digits and hyphens
RECURSIVE NumberPrefix(_)
NumberPrefix(s) ==
    IF s # <<>> /\ IsNumberChar(Head(s)) THEN 1 + NumberPrefix(Tail(s)) ELSE 0

\* "number title | page" (lines 1734-1741): [number, title, page]; the
\* number is what ^([\d\-]+\.?)\s*(.*)$ captures first, the title the rest
ParseEntryText(new_text) ==
    LET parts == Split(new_text, PIPE)
        text_part == Strip(parts[1])
        page_num == IF Len(parts) > 1 THEN Strip(parts[2]) ELSE <<>>
        k == NumberPrefix(text_part)
        n == IF k < Len(text_part) /\ text_part[k + 1] = 46 THEN k + 1 ELSE k
        rest == LStrip(SubSeq(text_part, n + 1, Len(text_part)))
        matches == k > 0 /\ ~Contains(rest, NL)
    IN [number |-> IF matches THEN SubSeq(text_part, 1, n) ELSE <<>>,
        title |-> IF matches THEN rest ELSE text_part,
        page |-> page_num]

\* lines 1922-2010, on an entry with a hyperlink: the anchor of the
\* hyperlink and of the PAGEREF field, the number in the first text of the
\* hyperlink, the title before the tab of the field result and the page
\* after it
_update_toc_hyperlinks(para, number, title, page, anchor) ==
    [para EXCEPT !.anchor = anchor, !.number = number, !.title = title, !.page = page]

\* lines 2013-2053, on an entry without a hyperlink: "number title" in the
\* first text, the page in the text of the run with the tab
_update_toc_simple(para, number, title, page) ==
    [para EXCEPT !.title = number \o <<SP>> \o title, !.page = page]

UpdateEntry(para, new_text, anchor) ==
    LET t == ParseEntryText(new_text)
    IN IF para.anchor # <<>>
       THEN _update_toc_hyperlinks(para, t.number, t.title, t.page, anchor)
       ELSE _update_toc_simple(para, t.number, t.title, t.page)

\* anchor_name or f"_Toc{p_idx:08d}"
AnchorOr(anchor_name, p_idx) == IF anchor_name # <<>> THEN anchor_name ELSE TocAnchor(p_idx)

\* lines 1706-1756
_toc_replace_entry(sdt_xml, p_idx, new_text, anchor_name) ==
    IF p_idx >= Len(sdt_xml.entries) THEN sdt_xml
    ELSE [sdt_xml EXCEPT !.entries[p_idx + 1] =
             UpdateEntry(@, new_text, AnchorOr(anchor_name, p_idx))]

\* lines 1864-1919: the first entry with text of the named style of the
\* template, or of its indent; <<>> when there is none
_find_toc_paragraph_by_level(paragraphs, target_tpl) ==
    LET tpl == target_tpl.toc_xml_template
        Fits(e) == /\ EntryTexts(e) # <<>>
                   /\ \/ tpl.pStyle # "" /\ e.pStyle = tpl.pStyle
                      \/ e.left = tpl.left
        found == SelectSeq(paragraphs, Fits)
    IN IF found = <<>> THEN <<>> ELSE <<found[1]>>

\* lines 1759-1831: a copy of an entry of the level, or of the reference
\* entry, with the new texts, put after or before the reference entry
_toc_insert_entry(sdt_xml, p_idx, new_text, toc_level_alias, insert_after, anchor_name, toc_style_templates) ==
    LET paragraphs == sdt_xml.entries
        by_level == IF toc_level_alias # NoAlias /\ DictHas(toc_style_templates, toc_level_alias)
                    THEN _find_toc_paragraph_by_level(paragraphs,
                             DictGet(toc_style_templates, toc_level_alias, <<>>))
                    ELSE <<>>
        clone_source == IF by_level # <<>> THEN by_level[1] ELSE paragraphs[p_idx + 1]
        new_para == UpdateEntry(clone_source, new_text, AnchorOr(anchor_name, p_idx))
    IN IF p_idx >= Len(paragraphs) THEN sdt_xml
       ELSE [sdt_xml EXCEPT !.entries =
                InsertAt(@, IF insert_after THEN p_idx + 1 ELSE p_idx, new_para)]

\* lines 1837-1861
_toc_delete_entry(sdt_xml, p_idx) ==
    IF p_idx >= Len(sdt_xml.entries) THEN sdt_xml
    ELSE [sdt_xml EXCEPT !.entries = RemoveAt(@, p_idx + 1)]

\* lines 2060-2099: the start of the bookmark right after w:pPr and its end
\* right after the start.  The anchor blocks of the universe are paragraphs;
\* an element of another kind is left as it is here.
_inject_bookmark_into_paragraph(para_xml, anchor_name, bookmark_id) ==
    IF para_xml.kind = "p"
    THEN [para_xml EXCEPT !.lead = <<BookmarkStart(bookmark_id, anchor_name),
                                     BookmarkEnd(bookmark_id)>> \o @]
    ELSE para_xml

\* The anchor of an entry edit (lines 2317-2322 and 2339-2344): a fresh
\* name from the counter when the edit names an anchor block, which then
\* awaits its bookmark.  st is [xml, pending, counter].
WithAnchor(st, anchor_bid) ==
    IF anchor_bid # NoBlock
    THEN [st EXCEPT !.pending = DictPut(@, anchor_bid, TocAnchor(st.counter)),
                    !.counter = @ + 1]
    ELSE st

AnchorNameFor(st, anchor_bid) == IF anchor_bid # NoBlock THEN TocAnchor(st.counter) ELSE <<>>

RECURSIVE ReplaceEntries(_, _)
ReplaceEntries(st, replacements) ==
    IF replacements = <<>> THEN st
    ELSE LET replacement == Head(replacements)
             tid == replacement.original_target_id
         IN The({ReplaceEntries(next, Tail(replacements)) :
                next \in {IF tid.shape # "sdtpara" THEN st
                          ELSE [WithAnchor(st, replacement.anchor_block_id) EXCEPT !.xml =
                                   _toc_replace_entry(@, tid.p, replacement.content,
                                       AnchorNameFor(st, replacement.anchor_block_id))]}})

RECURSIVE InsertEntries(_, _, _)
InsertEntries(st, inserts, toc_style_templates) ==
    IF inserts = <<>> THEN st
    ELSE LET insert == Head(inserts)
         IN The({InsertEntries(next, Tail(inserts), toc_style_templates) :
                next \in {[WithAnchor(st, insert.anchor_block_id) EXCEPT !.xml =
                              _toc_insert_entry(@, insert.para_idx, insert.content,
                                  insert.toc_level_alias, insert.insert_after,
                                  AnchorNameFor(st, insert.anchor_block_id),
                                  toc_style_templates)]}})

\* sorted(sdt_inserts, key=(para_idx, _insert_order), reverse=True)
EntryInsertsDescending(inserts) ==
    SortedByKey(inserts, [i \in 1..Len(inserts) |->
                            <<-inserts[i].para_idx, -inserts[i].insert_order>>])

RECURSIVE DeleteEntries(_, _)
DeleteEntries(sdt_xml, p_idxs) ==
    IF p_idxs = <<>> THEN sdt_xml
    ELSE DeleteEntries(_toc_delete_entry(sdt_xml, Head(p_idxs)), Tail(p_idxs))

\* the structured tag of a marked block (lines 2299-2355): [xml, pending,
\* counter]
AssembleSdt(block, m, pending, counter, toc_style_templates) ==
    The({InsertEntries(st2, EntryInsertsDescending(m.sdt_entry_inserts), toc_style_templates) :
        st2 \in {ReplaceEntries(st1, m.replacements) :
        st1 \in {[xml |-> DeleteEntries(block.xml, Descending(m.sdt_entry_deletions)),
                  pending |-> pending, counter |-> counter]}}})

\* the paragraphs that replace a paragraph block (lines 2372-2398)
ReplacedParagraph(block, replacement, pst) ==
    LET template == DictGet(pst, block.style_key, NoTemplate)
    IN IF _has_non_text_content(block.xml)
       THEN <<_replace_text_preserving_structure(block.xml, replacement.content)>>
       ELSE IF replacement.run_xmls # <<>>
       THEN <<ParaFrom(template, replacement.run_xmls)>>
       ELSE _append_paragraphs_from_content(template, replacement.content)

\* One step of the loop over the blocks; acc is [raised, what, parts, idx,
\* pending, counter]: idx is block_id_to_parts_idx, pending is
\* pending_bookmarks, counter is bookmark_counter.
AssembleBlock(acc, mb, pst, tst, toc_style_templates, style_alias_map) ==
    LET block == mb.block
        m == mb.m
        AfterIn(a, parts) ==
            [a EXCEPT !.parts =
                The({InsertsAfter(p, m.inserts_after, block, pst, tst, style_alias_map) :
                        p \in {parts}})]
        After(parts) == AfterIn(acc, parts)
        Indexed(before) == [acc EXCEPT !.idx = DictPut(@, block.id, Len(before))]
        Failed(what, before) == [acc EXCEPT !.raised = TRUE, !.what = what, !.parts = before]
        Step(before) ==
            IF ~(m.replaced /\ m.has_replacements)
            THEN AfterIn(Indexed(before), Append(before, block.xml))
            ELSE IF block.type = "tbl"
            THEN The({IF table.kind = "raise" THEN Failed(table.what, before)
                      ELSE After(Append(before, table)) :
                         table \in {AssembleTable(block, m, pst, style_alias_map)}})
            ELSE IF block.type = "sdt"
            THEN The({AfterIn([acc EXCEPT !.pending = st.pending, !.counter = st.counter],
                              Append(before, st.xml)) :
                         st \in {AssembleSdt(block, m, acc.pending, acc.counter,
                                             toc_style_templates)}})
            \* replacements[0] of a block marked by a row or column deletion only
            ELSE IF m.replacements = <<>> THEN Failed("IndexError", Indexed(before).parts)
            ELSE IF ~DictHas(pst, block.style_key)
            THEN [Indexed(before) EXCEPT !.parts = Append(before, block.xml)]
            ELSE AfterIn(Indexed(before),
                         before \o ReplacedParagraph(block, m.replacements[1], pst))
    IN IF acc.raised \/ m.deleted THEN acc
       ELSE The({Step(before) :
                    before \in {acc.parts \o
                        Concat([i \in 1..Len(m.inserts_before) |->
                            BlockInsertXml(m.inserts_before[i], pst, tst,
                                           style_alias_map)])}})

RECURSIVE AssembleBlocks(_, _, _, _, _, _)
AssembleBlocks(acc, blocks, pst, tst, toc_style_templates, style_alias_map) ==
    IF blocks = <<>> THEN acc
    ELSE The({AssembleBlocks(next, Tail(blocks), pst, tst, toc_style_templates,
                             style_alias_map) :
                 next \in {AssembleBlock(acc, Head(blocks), pst, tst, toc_style_templates,
                                         style_alias_map)}})

\* The pass over pending_bookmarks (lines 2491-2498), in the order the
\* anchor blocks were first named: a bookmark for every anchor block that
\* has an index, its id from the counter.
RECURSIVE InjectBookmarks(_, _)
InjectBookmarks(acc, pending) ==
    IF pending = <<>> THEN acc
    ELSE LET bid == Head(pending).k
             anchor_name == Head(pending).v
             idx == DictGet(acc.idx, bid, -1)
         IN The({InjectBookmarks(next, Tail(pending)) :
                next \in {IF DictHas(acc.idx, bid) /\ idx < Len(acc.parts)
                          THEN [acc EXCEPT !.parts[idx + 1] =
                                   _inject_bookmark_into_paragraph(@, anchor_name,
                                                                   acc.counter),
                                           !.counter = @ + 1]
                          ELSE acc}})

\* [raised, what, parts, ...]: the body content, or the exception that
\* ended the loop and the parts put together before it.
assemble_document_xml(blocks, pst, tst, toc_style_templates, style_alias_map) ==
    The({IF acc.raised THEN acc ELSE InjectBookmarks(acc, acc.pending) :
            acc \in {AssembleBlocks([raised |-> FALSE, what |-> "", parts |-> <<>>,
                                     idx |-> <<>>, pending |-> <<>>, counter |-> 0],
                                    blocks, pst, tst, toc_style_templates,
                                    style_alias_map)}})

\* Everything between <w:body> and </w:body> of the original document part
\* is replaced by the body content.
wrap_document_body(body_content, original_document_xml) ==
    [original_document_xml EXCEPT !.body = body_content]

save_document_xml(document_xml, tr) ==
    [tr EXCEPT !.files = [n \in (DOMAIN @) \cup {DocPart} |->
                             IF n = DocPart THEN document_xml ELSE @[n]]]

\* main as it would be if the document part were written as the assembly
\* goes: an exception leaves the parts put together before it in the tree
main_writing_as_it_goes(an, edits, tr) ==
    IF edits = <<>> THEN [status |-> "noedits", tree |-> tr]
    ELSE IF DocPart \notin DOMAIN tr.files THEN [status |-> "error", tree |-> tr]
    ELSE The({[status |-> IF body_content.raised THEN "failed" ELSE "ok",
               tree |-> save_document_xml(
                            wrap_document_body(body_content.parts, tr.files[DocPart]), tr)] :
            body_content \in {assemble_document_xml(marked_blocks,
                                  an.paragraph_style_templates, an.table_style_templates,
                                  an.toc_style_templates, an.style_alias_map) :
            marked_blocks \in {apply_mapping_to_blocks(an.blocks, new_blocks) :
            new_blocks \in {generate_new_blocks(edits, an)}}}})

\* apply_edits.py <work_dir>, with analysis.json and edits.json in place:
\* [status, tree].  "noedits": the list is empty, exit 0; "error": the tree
\* has no document part, exit 1; "failed": an exception ended the run;
\* "ok": the document part was written.
main(an, edits, tr) ==
    IF edits = <<>> THEN [status |-> "noedits", tree |-> tr]
    ELSE IF DocPart \notin DOMAIN tr.files THEN [status |-> "error", tree |-> tr]
    ELSE The({IF body_content.raised THEN [status |-> "failed", tree |-> tr]
              ELSE [status |-> "ok",
                    tree |-> save_document_xml(
                                 wrap_document_body(body_content.parts, tr.files[DocPart]),
                                 tr)] :
            body_content \in {assemble_document_xml(marked_blocks,
                                  an.paragraph_style_templates, an.table_style_templates,
                                  an.toc_style_templates, an.style_alias_map) :
            marked_blocks \in {apply_mapping_to_blocks(an.blocks, new_blocks) :
            new_blocks \in {generate_new_blocks(edits, an)}}}})

(***************************************************************************)
(* repack_docx.py                                                          *)
(***************************************************************************)
\* package_to_docx as it would be if every file of the tree replaced the
\* entry of its name, whatever the extension
package_any_tree_file(arch, tr) ==
    [i \in 1..Len(arch) |->
        [name |-> arch[i].name,
         data |-> IF arch[i].name \in DOMAIN tr.files
                  THEN tr.files[arch[i].name]
                  ELSE ZipRead(arch, arch[i].name)]]

\* package_to_docx as it would be if the entries that have a file in the
\* tree were left out of the output
package_without_tree_files(arch, tr) ==
    SelectSeq([i \in 1..Len(arch) |->
                  [name |-> arch[i].name, data |-> ZipRead(arch, arch[i].name)]],
              LAMBDA e : ~(IsXmlOrRels(e.name) /\ e.name \in DOMAIN tr.files))

\* The entries of the original in their order; an entry whose name ends in
\* .xml or .rels and names a file of the tree gets the bytes of that file,
\* every other entry what ZipFile.read gives for its name.
package_to_docx(arch, tr) ==
    [i \in 1..Len(arch) |->
        [name |-> arch[i].name,
         data |-> IF IsXmlOrRels(arch[i].name) /\ arch[i].name \in DOMAIN tr.files
                  THEN tr.files[arch[i].name]
                  ELSE ZipRead(arch, arch[i].name)]]

(***************************************************************************)
(* repack_docx.py --update-fields.  The content of word/settings.xml is    *)
(* [root, updateFields]: root says how the root element is written         *)
(* ("open": <w:settings ...> ... </w:settings>; "selfclosing":             *)
(* <w:settings .../>; "unprefixed": the elements carry another prefix, or  *)
(* none), updateFields is the w:val of the update-fields element ("noval": *)
(* the element has no w:val, "absent": there is no such element).          *)
(***************************************************************************)
SettingsPart == [dir |-> "word", base |-> "settings", ext |-> "xml"]

Settings(root, updateFields) == [root |-> root, updateFields |-> updateFields]

\* "w:updateFields" in content
HasUpdateFieldsText(content) == content.root # "unprefixed" /\ content.updateFields # "absent"

\* the tree after inject_update_fields(extracted_path)
inject_update_fields(tr) ==
    IF SettingsPart \in DOMAIN tr.files
    THEN LET content == tr.files[SettingsPart]
             written ==
                 \* the regular expression rewrites the value of a w:val that
                 \* the element has
                 IF HasUpdateFieldsText(content)
                 THEN [content EXCEPT !.updateFields = IF @ = "noval" THEN @ ELSE "true"]
                 \* "</w:settings>" in content
                 ELSE IF content.root = "open"
                 THEN [content EXCEPT !.updateFields = "true"]
                 \* <w:settings .../>
                 ELSE IF content.root = "selfclosing"
                 THEN Settings("open", "true")
                 ELSE content
         IN [tr EXCEPT !.files[SettingsPart] = written]
    ELSE [tr EXCEPT !.files = [n \in (DOMAIN @) \cup {SettingsPart} |->
                                  IF n = SettingsPart THEN Settings("open", "true") ELSE @[n]]]

(***************************************************************************)
(* The commands.  Each is a run of one script on the files of the work     *)
(* directory.                                                              *)
(***************************************************************************)
\* python3 analyze_docx.py <docx> <work_dir>: the tree is replaced by the
\* extraction; analysis.json is written unless the tree has no document
\* part (FileNotFoundError).
Analyze ==
    /\ ~analysis_json.exists
    /\ extracted' = extract_docx_xml(original_docx)
    /\ analysis_json' = IF DocPart \in DOMAIN extracted'.files
                        THEN analyze(extracted')
                        ELSE analysis_json
    /\ UNCHANGED <<original_docx, edits_json, validation, applied, output_docx, session, manager>>

\* the author of the edits stores a batch in edits.json
WriteEdits(batches) ==
    /\ analysis_json.exists
    /\ ~edits_json.exists
    /\ \E batch \in batches :
           edits_json' = [exists |-> TRUE, edits |-> batch]
    /\ UNCHANGED <<original_docx, extracted, analysis_json, validation, applied, output_docx,
                 session, manager>>

\* python3 validate_edits.py <work_dir>
Validate ==
    /\ analysis_json.exists
    /\ edits_json.exists
    /\ validation' = validate(analysis_json, edits_json.edits)
    /\ UNCHANGED <<original_docx, extracted, analysis_json, edits_json, applied, output_docx,
                 session, manager>>

\* python3 apply_edits.py <work_dir>, run once on the files of the work
\* directory
Apply ==
    /\ analysis_json.exists
    /\ edits_json.exists
    /\ applied = "never"
    /\ \E result \in {main(analysis_json, edits_json.edits, extracted)} :
           /\ applied' = result.status
           /\ extracted' = result.tree
    /\ UNCHANGED <<original_docx, analysis_json, edits_json, validation, output_docx, session, manager>>

\* python3 repack_docx.py <original_docx> <extracted_dir> <output_docx>,
\* without --update-fields; the output is written once
Repack ==
    /\ extracted.exists
    /\ ~output_docx.exists
    /\ output_docx' = [exists |-> TRUE, entries |-> package_to_docx(original_docx, extracted)]
    /\ UNCHANGED <<original_docx, extracted, analysis_json, edits_json, validation, applied,
                 session, manager>>

\* python3 repack_docx.py <original_docx> <extracted_dir> <output_docx>
\* --update-fields: the setting is written into the tree, then the output
\* is packaged
RepackUpdateFields ==
    /\ extracted.exists
    /\ ~output_docx.exists
    /\ extracted' = inject_update_fields(extracted)
    /\ output_docx' = [exists |-> TRUE, entries |-> package_to_docx(original_docx, extracted')]
    /\ UNCHANGED <<original_docx, analysis_json, edits_json, validation, applied, session, manager>>

(***************************************************************************)
(* container/manager.py: the ContainerManager of one session.  Every call  *)
(* of exec or stop is a task of the event loop; a task runs until its next *)
(* await and the tasks interleave there.  manager is                       *)
(*   _container_id   the field of the manager, None when it has none;      *)
(*   running         the ids of the containers the docker daemon runs;     *)
(*   started         the number of containers docker has started so far,   *)
(*                   the id of the last one;                               *)
(*   pc              of every task, where it waits: "idle" before a call   *)
(*                   and after it, "docker run", "docker exec" or          *)
(*                   "docker rm" at the await of that subprocess;          *)
(*   cid             of every task, the container id that its subprocess   *)
(*                   was given;                                            *)
(*   ran             of every exec task, how its last docker exec went:    *)
(*                   [cid, found], found telling whether docker ran the    *)
(*                   container cid then; cid is None before the first;     *)
(*   raised          of every exec task, whether its last call of exec     *)
(*                   raised RuntimeError.                                  *)
(***************************************************************************)
None == 0
MaxExecs == 2
MaxContainers == 3

ExecTasks == 1..MaxExecs
StopTask == 0
Tasks == ExecTasks \cup {StopTask}

\* ContainerManager(...) (lines 23-36), no call under way
NewManager ==
    [_container_id |-> None, running |-> {}, started |-> 0,
     pc |-> [t \in Tasks |-> "idle"], cid |-> [t \in Tasks |-> None],
     ran |-> [t \in ExecTasks |-> [cid |-> None, found |-> FALSE]],
     raised |-> [t \in ExecTasks |-> FALSE]]

Others == <<original_docx, extracted, analysis_json, edits_json, validation, applied,
            output_docx, session>>

\* _ensure_started up to its await (lines 40-55), or through to the await
\* of docker exec when the manager has a container (lines 40-41, 66-74)
ExecCall(t) ==
    /\ manager.pc[t] = "idle"
    /\ manager' = IF manager._container_id # None
                  THEN [manager EXCEPT !.cid[t] = manager._container_id,
                                       !.pc[t] = "docker exec"]
                  ELSE [manager EXCEPT !.pc[t] = "docker run"]
    /\ UNCHANGED Others

\* docker run -d has started a container and printed its id: the rest of
\* _ensure_started and exec up to the await of docker exec (lines 57-74)
DockerRunDone(t) ==
    /\ manager.pc[t] = "docker run"
    /\ manager.started < MaxContainers
    /\ manager' = [manager EXCEPT !.started = @ + 1,
                                  !.running = @ \cup {manager.started + 1},
                                  !._container_id = manager.started + 1,
                                  !.cid[t] = manager.started + 1,
                                  !.pc[t] = "docker exec"]
    /\ UNCHANGED Others

\* docker run has failed: RuntimeError out of exec (lines 57-58)
DockerRunFailed(t) ==
    /\ manager.pc[t] = "docker run"
    /\ manager' = [manager EXCEPT !.raised[t] = TRUE, !.pc[t] = "idle"]
    /\ UNCHANGED Others

\* docker exec has ended, in time or not: the rest of exec (lines 73-83)
DockerExecDone(t) ==
    /\ manager.pc[t] = "docker exec"
    /\ manager' = [manager EXCEPT
                      !.ran[t] = [cid |-> manager.cid[t],
                                  found |-> manager.cid[t] \in manager.running],
                      !.raised[t] = FALSE,
                      !.pc[t] = "idle"]
    /\ UNCHANGED Others

\* stop up to its await (lines 87-94)
StopCall ==
    /\ manager.pc[StopTask] = "idle"
    /\ manager' = IF manager._container_id = None THEN manager
                  ELSE [manager EXCEPT !.cid[StopTask] = manager._container_id,
                                       !.pc[StopTask] = "docker rm"]
    /\ UNCHANGED Others

\* docker rm -f has ended: the rest of stop (lines 95-96)
DockerRmDone ==
    /\ manager.pc[StopTask] = "docker rm"
    /\ manager' = [manager EXCEPT !.running = @ \ {manager.cid[StopTask]},
                                  !._container_id = None,
                                  !.pc[StopTask] = "idle"]
    /\ UNCHANGED Others

(***************************************************************************)
(* The universe of documents and edits.                                    *)
(***************************************************************************)
SeqsUpTo(S, n) == UNION {[1..k -> S] : k \in 0..n}

\* "Aa0": a text that names the row, the cell and the paragraph it is in
TextAt(r, c, q) == <<65 + r, 97 + c, 48 + q>>

PlainPara(text) == Para("Normal", <<>>, <<Run(0, text)>>)

\* cell (r, c) has np paragraphs when r + c is even, else one
MkCell(r, c, np, w, inner) ==
    Cell(c % 2, w,
         [q \in 1..(IF (r + c) % 2 = 0 THEN np ELSE 1) |-> PlainPara(TextAt(r, c, q))],
         inner)

\* A table of nr rows of nc cells; when nest, cell (1, 1) holds a table of
\* one row of nc + 1 cells.
MkTable(nr, nc, np, nest, w, grid) ==
    Tbl(w, grid,
        [r \in 1..nr |->
            Row(r % 2,
                [c \in 1..nc |->
                    MkCell(r, c, np, grid[c],
                           IF nest /\ r = 1 /\ c = 1
                           THEN <<Row(0, [j \in 1..(nc + 1) |-> MkCell(r + 2, j, 1, 0, <<>>)])>>
                           ELSE <<>>)])])

EvenGrid(nc, w) == [c \in 1..nc |-> w \div nc]

BaseEdit ==
    [action |-> "replace", target_id |-> BlockTarget(0), semantic_tag |-> "",
     new_text |-> <<>>, style_alias |-> NoAlias, edit_unit |-> "",
     table_style_alias |-> NoAlias, row_style_aliases |-> <<>>,
     cell_style_aliases |-> [nested |-> FALSE, items |-> <<>>],
     runs |-> <<>>, toc_level_alias |-> NoAlias, anchor_block_id |-> NoBlock]

Actions == {"replace", "insert_after", "insert_before", "delete"}

DocEntry(body) == [name |-> DocPart, data |-> [bytes |-> 0, body |-> body]]

(***************************************************************************)
(* Validation of table coordinates: a document of one paragraph, one       *)
(* table and the section properties; batches of one edit on any            *)
(* coordinate up to one past the extents, and batches of deletes of        *)
(* paragraphs of one cell.                                                 *)
(***************************************************************************)
ValidateTables ==
    {MkTable(nr, nc, np, nest, 9000, EvenGrid(nc, 9000)) :
        nr \in 1..MaxRows, nc \in 1..MaxCols, np \in 1..MaxParas, nest \in BOOLEAN}

ValidateArchives ==
    {<<DocEntry(<<PlainPara(<<80>>), tbl, SectPr(1)>>)>> : tbl \in ValidateTables}

CoordTargets ==
    {CellTarget(1, r, c) : r \in 0..MaxRows + 1, c \in 0..MaxCols + 1}
    \cup {CellParaTarget(1, r, c, q) : r \in 0..MaxRows + 1, c \in 0..MaxCols + 1, q \in 0..MaxParas}
    \cup {RowTarget(1, r) : r \in 0..MaxRows + 1}
    \cup {ColTarget(1, c) : c \in 0..MaxCols + 1}
    \cup {CellTarget(0, 0, 0), RowTarget(0, 0), ColTarget(0, 0), CellParaTarget(2, 0, 0, 0)}

UnitOf(shape) ==
    CASE shape = "row" -> "row" [] shape = "col" -> "column" [] OTHER -> "cell"

CoordEdits ==
    {[BaseEdit EXCEPT !.action = a, !.target_id = t, !.semantic_tag = "TBL",
                      !.edit_unit = UnitOf(t.shape), !.new_text = <<88>>] :
        a \in Actions, t \in CoordTargets}

CellDeletes(r, c) ==
    {[BaseEdit EXCEPT !.action = "delete", !.target_id = CellParaTarget(1, r, c, q),
                      !.semantic_tag = "TBL"] : q \in 0..MaxParas - 1}

ValidateBatches ==
    {<<e>> : e \in CoordEdits}
    \cup UNION {SeqsUpTo(CellDeletes(r, c), MaxBatch) : r \in 0..1, c \in 0..1}

InitValidate ==
    /\ original_docx \in ValidateArchives
    /\ extracted = NoTree
    /\ analysis_json = NoAnalysis
    /\ edits_json = NoEdits
    /\ validation = NoValidation
    /\ applied = "never"
    /\ output_docx = NoOutput
    /\ session = <<>>
    /\ manager = NewManager

NextValidate == Analyze \/ WriteEdits(ValidateBatches) \/ Validate

SpecValidate == InitValidate /\ [][NextValidate]_vars

(***************************************************************************)
(* The pipeline: analyze, write a batch, apply, repack.  A document of one *)
(* paragraph, one table and the section properties, in an archive with a   *)
(* content-types part and an image.                                        *)
(***************************************************************************)
ContentTypes == [dir |-> "", base |-> "[Content_Types]", ext |-> "xml"]
Image == [dir |-> "word/media", base |-> "image1", ext |-> "png"]
Rels == [dir |-> "word/_rels", base |-> "document.xml", ext |-> "rels"]

Blob(name, n) == [name |-> name, data |-> [bytes |-> n, body |-> <<>>]]

PipelineParagraphs == {PlainPara(<<80>>), Para("Heading1", Centered, <<Run(1, <<80>>)>>)}

\* a table with a declared width and a grid of that width, and a table of
\* automatic width (w:w="0") without column widths
PipelineTables ==
    {MkTable(nr, MaxCols, MaxParas, FALSE, w, EvenGrid(MaxCols, w)) :
        nr \in 1..MaxRows, w \in {0, 9000}}

PipelineArchives ==
    {<<Blob(ContentTypes, 1), DocEntry(<<para, tbl, SectPr(1)>>), Blob(Image, 2)>> :
        para \in PipelineParagraphs, tbl \in PipelineTables}

S1 == <<"S", 1>>
RS0 == <<"RS", 0>>
CS0 == <<"CS", 0>>

X == <<120>>

ParagraphEdit(action, b, text) ==
    [BaseEdit EXCEPT !.action = action, !.target_id = BlockTarget(b),
                     !.semantic_tag = "BODY", !.style_alias = S1, !.new_text = text]

TableEdit(action, target, unit, text) ==
    [BaseEdit EXCEPT !.action = action, !.target_id = target, !.semantic_tag = "TBL",
                     !.edit_unit = unit, !.new_text = text]

ColumnInsert(action, c, text, aliases) ==
    [TableEdit(action, ColTarget(1, c), "column", text)
        EXCEPT !.cell_style_aliases = [nested |-> FALSE, items |-> aliases]]

RowInsert(action, r, text, row_alias, cell_aliases) ==
    [TableEdit(action, RowTarget(1, r), "row", text)
        EXCEPT !.row_style_aliases = <<row_alias>>,
               !.cell_style_aliases = [nested |-> TRUE, items |-> <<cell_aliases>>]]

\* "x & y": a text with a character that XML escapes
XAndY == <<120, SP, AMP, SP, 121>>

PipelineEdits ==
    {ParagraphEdit("replace", 0, XAndY),
     ParagraphEdit("insert_after", 1, X),
     ParagraphEdit("replace", 7, X),
     TableEdit("replace", CellParaTarget(1, 0, 0, 0), "cell", X),
     TableEdit("delete", RowTarget(0, 0), "row", <<>>),
     ColumnInsert("insert_after", 0, X, <<CS0>>)}

PipelineBatches == SeqsUpTo(PipelineEdits, MaxBatch)

Init ==
    /\ original_docx \in PipelineArchives
    /\ extracted = NoTree
    /\ analysis_json = NoAnalysis
    /\ edits_json = NoEdits
    /\ validation = NoValidation
    /\ applied = "never"
    /\ output_docx = NoOutput
    /\ session = <<>>
    /\ manager = NewManager

Next == Analyze \/ WriteEdits(PipelineBatches) \/ Apply \/ Repack

Spec == Init /\ [][Next]_vars

(***************************************************************************)
(* Table edits: a document of one paragraph and one table, whose declared  *)
(* width and grid agree or not; batches of edits of the table.             *)
(***************************************************************************)
\* <<tblW, width of the grid>>: declared and equal, not declared, automatic
\* (w:w="0"), declared and wider than the grid
TableWidths == {<<9000, 9000>>, <<-1, 9000>>, <<0, 9000>>, <<9000, 6000>>}

EditedTables ==
    {MkTable(nr, nc, MaxParas, nest, wg[1], EvenGrid(nc, wg[2])) :
        nr \in 1..MaxRows, nc \in 1..MaxCols, nest \in BOOLEAN, wg \in TableWidths}

TableArchives ==
    {<<DocEntry(<<PlainPara(<<80>>), tbl, SectPr(1)>>)>> : tbl \in EditedTables}

\* "x\ny": the texts of the cells of a new column
XNlY == <<120, NL, 121>>
\* "x | y": the texts of the cells of a new row
XPipeY == <<120, SP, PIPE, SP, 121>>

TableEdits ==
    {TableEdit("delete", RowTarget(1, r), "row", <<>>) : r \in 0..MaxRows - 1}
    \cup {TableEdit("delete", ColTarget(1, c), "column", <<>>) : c \in 0..MaxCols - 1}
    \cup {TableEdit("delete", CellParaTarget(1, 0, 0, q), "cell", <<>>) : q \in 0..MaxParas - 1}
    \cup {ColumnInsert(a, c, XNlY, <<CS0>>) :
            a \in {"insert_after", "insert_before"}, c \in 0..MaxCols - 1}
    \cup {RowInsert("insert_after", r, XPipeY, RS0, <<CS0, CS0>>) : r \in 0..MaxRows - 1}
    \cup {ColumnInsert("insert_after", 0, XNlY, <<>>),
          RowInsert("insert_after", 0, X, RS0, <<CS0>>),
          RowInsert("insert_after", 0, XPipeY, CS0, <<CS0, CS0>>),
          TableEdit("replace", CellParaTarget(1, 0, 0, 0), "cell", X),
          TableEdit("replace", RowTarget(1, 0), "row", XPipeY)}

TableBatches == SeqsUpTo(TableEdits, MaxBatch) \ {<<>>}

InitTable ==
    /\ original_docx \in TableArchives
    /\ extracted = NoTree
    /\ analysis_json = NoAnalysis
    /\ edits_json = NoEdits
    /\ validation = NoValidation
    /\ applied = "never"
    /\ output_docx = NoOutput
    /\ session = <<>>
    /\ manager = NewManager

NextTable == Analyze \/ WriteEdits(TableBatches) \/ Apply

SpecTable == InitTable /\ [][NextTable]_vars

(***************************************************************************)
(* Paragraph edits: a document of two paragraphs of any two shapes;        *)
(* batches of one edit of a paragraph, and of two edits of the first.      *)
(***************************************************************************)
\* <w:r><w:t>a</w:t><w:tab/><w:t>b</w:t></w:r>
TabbedRun == [rPr |-> 0, text |-> <<97>>, more |-> <<<<98>>>>]

\* a paragraph that holds a drawing (w:drawing), and one that holds an
\* embedded object drawn by a shape (v:shape in w:object)
Drawing(runs) == [Para("Normal", <<>>, runs) EXCEPT !.obj = <<"w", "wordprocessingml", "drawing">>]
OleObject(runs) == [Para("Normal", <<>>, runs) EXCEPT !.obj = <<"v", "vml", "shape">>]

ParagraphShapes ==
    {PlainPara(<<80>>),
     Para("Heading1", Centered, <<Run(1, <<72>>)>>),
     Para("Normal", <<>>, <<Run(0, <<97>>), Run(1, <<98>>)>>),
     Para("Normal", <<>>, <<TabbedRun>>),
     Para("Normal", <<>>, <<>>),
     Drawing(<<Run(1, <<68>>), TabbedRun>>),
     Drawing(<<>>),
     OleObject(<<Run(0, <<79>>)>>)}

ParagraphArchives ==
    {<<DocEntry(<<first, second, SectPr(1)>>)>> :
        first \in ParagraphShapes, second \in ParagraphShapes}

S2 == <<"S", 2>>
S9 == <<"S", 9>>
RunRS0 == <<"RS", 0>>
RunRS7 == <<"RS", 7>>

RunSpec(text, run_style) == [text |-> text, run_style |-> run_style]

\* the run-distribution specs of an edit of text X: none, the text in one
\* run, the text in two runs, another text, a run style of no template
RunSpecs ==
    {<<>>,
     <<RunSpec(X, RunRS0)>>,
     <<RunSpec(<<>>, RunRS0), RunSpec(X, RunRS0)>>,
     <<RunSpec(<<121>>, RunRS0)>>,
     <<RunSpec(X, RunRS7)>>}

ParagraphReplace(b, text, alias, runs) ==
    [ParagraphEdit("replace", b, text) EXCEPT !.style_alias = alias, !.runs = runs]

ParagraphReplaces ==
    {ParagraphReplace(b, X, alias, runs) :
        b \in 0..1, alias \in {NoAlias, S1, S2, S9}, runs \in RunSpecs}
    \cup {ParagraphReplace(b, text, alias, <<>>) :
            b \in 0..1, text \in {XAndY, <<>>}, alias \in {NoAlias, S1, S2}}
    \cup {[ParagraphReplace(b, X, S1, <<>>) EXCEPT !.semantic_tag = tag] :
            b \in 0..1, tag \in {"TBL", "TOC", ""}}

ParagraphEdits ==
    ParagraphReplaces
    \cup {ParagraphEdit(a, b, X) : a \in {"insert_after", "insert_before", "delete"},
                                   b \in 0..1}

ParagraphBatches ==
    {<<e>> : e \in ParagraphEdits}
    \cup {<<e, ParagraphReplace(0, X, S1, <<>>)>> :
            e \in {ParagraphEdit(a, 0, X) :
                      a \in {"insert_after", "insert_before", "delete"}}}

InitParagraph ==
    /\ original_docx \in ParagraphArchives
    /\ extracted = NoTree
    /\ analysis_json = NoAnalysis
    /\ edits_json = NoEdits
    /\ validation = NoValidation
    /\ applied = "never"
    /\ output_docx = NoOutput
    /\ session = <<>>
    /\ manager = NewManager

NextParagraph == Analyze \/ WriteEdits(ParagraphBatches) \/ Apply

SpecParagraph == InitParagraph /\ [][NextParagraph]_vars

(***************************************************************************)
(* Validation of the fields of an edit: a document of one paragraph and    *)
(* one table; batches of one edit whose action, coordinate, tag, aliases,  *)
(* text and run-distribution spec vary, and batches of two such edits.     *)
(***************************************************************************)
FieldArchives ==
    {<<DocEntry(<<first, MkTable(MaxRows, MaxCols, 1, FALSE, 9000, EvenGrid(MaxCols, 9000)),
                  SectPr(1)>>)>> :
        first \in {Para("Heading1", Centered, <<Run(0, <<72>>), Run(1, <<73>>)>>),
                   PlainPara(<<80>>)}}

T1 == <<"T", 1>>
T9 == <<"T", 9>>
RS9 == <<"RS", 9>>
CS9 == <<"CS", 9>>

FieldTags == {"", "BODY", "TBL", "TOC"}

\* edits that reference aliases, of the map or not, under any tag
AliasEdits ==
    {[BaseEdit EXCEPT !.action = a, !.target_id = t, !.semantic_tag = tag,
                      !.edit_unit = IF t.shape = "row" THEN "row" ELSE "",
                      !.new_text = X, !.style_alias = sa, !.table_style_alias = tsa,
                      !.row_style_aliases = rsa, !.cell_style_aliases = csa] :
        a \in Actions, t \in {BlockTarget(0), RowTarget(1, 0)}, tag \in FieldTags,
        sa \in {NoAlias, S1, S9}, tsa \in {NoAlias, T1, T9},
        rsa \in {<<>>, <<RS0>>, <<RS0, RS9>>},
        csa \in {[nested |-> FALSE, items |-> <<>>],
                 [nested |-> TRUE, items |-> <<<<CS0>>>>],
                 [nested |-> TRUE, items |-> <<<<CS0, CS9>>>>],
                 [nested |-> FALSE, items |-> <<CS9>>]}}

\* the six coordinate shapes on the paragraph (b0), the table (b1) and a
\* block that does not exist (b2), and a string of no shape
TypeTargets ==
    UNION {{BlockTarget(b), RowTarget(b, 0), CellTarget(b, 0, 0), CellParaTarget(b, 0, 0, 0),
            ColTarget(b, 0), SdtParaTarget(b, 0)} : b \in 0..2}
    \cup {Target("other", 0, 0, 0, 0)}

\* edits on every coordinate, with a text on one line or on two
TypeEdits ==
    {[BaseEdit EXCEPT !.action = a, !.target_id = t, !.semantic_tag = tag,
                      !.edit_unit = IF t.shape \in {"block", "sdtpara", "other"} THEN ""
                                    ELSE UnitOf(t.shape),
                      !.new_text = text] :
        a \in Actions, t \in TypeTargets, tag \in FieldTags \cup {"H1"},
        text \in {X, XNlY, <<>>}}

\* the run-distribution specs of RunSpecs, and one whose run names no style
FieldRunSpecs == RunSpecs \cup {<<RunSpec(X, NoAlias)>>}

\* edits of the paragraph that carry a run-distribution spec
RunEdits ==
    {[BaseEdit EXCEPT !.action = a, !.target_id = BlockTarget(0), !.semantic_tag = tag,
                      !.new_text = X, !.style_alias = sa, !.runs = runs] :
        a \in Actions, tag \in {"", "BODY", "H1", "TBL"},
        sa \in {NoAlias, S1, S2, S9}, runs \in FieldRunSpecs}

FieldEdits == AliasEdits \cup TypeEdits \cup RunEdits

\* the second edits of the batches of two
SecondEdits ==
    {ParagraphEdit("replace", 0, X),
     ParagraphEdit("replace", 0, XNlY),
     [ParagraphEdit("replace", 0, X) EXCEPT !.style_alias = S9],
     [ParagraphEdit("replace", 0, X) EXCEPT !.runs = <<RunSpec(X, RunRS7)>>],
     TableEdit("replace", CellTarget(0, 0, 0), "cell", X),
     TableEdit("replace", SdtParaTarget(1, 0), "", X),
     RowInsert("insert_after", 0, XPipeY, RS9, <<CS0, CS9>>)}

FieldBatches ==
    {<<e>> : e \in FieldEdits}
    \cup {<<e1, e2>> : e1 \in SecondEdits \cup {ParagraphEdit("delete", 0, <<>>)},
                       e2 \in SecondEdits}

InitFields ==
    /\ original_docx \in FieldArchives
    /\ extracted = NoTree
    /\ analysis_json = NoAnalysis
    /\ edits_json = NoEdits
    /\ validation = NoValidation
    /\ applied = "never"
    /\ output_docx = NoOutput
    /\ session = <<>>
    /\ manager = NewManager

NextFields == Analyze \/ WriteEdits(FieldBatches) \/ Validate

SpecFields == InitFields /\ [][NextFields]_vars

(***************************************************************************)
(* Style keys: a document of two paragraphs with text, whose named style,  *)
(* paragraph properties and runs vary.                                     *)
(***************************************************************************)
KeepNext == Elem("keepNext", <<>>, <<>>)
KeepNextOff == Elem("keepNext", <<Attr("val", "0")>>, <<>>)
IndLeft == Elem("ind", <<Attr("left", "720")>>, <<>>)
Jc == Elem("jc", <<Attr("val", "center")>>, <<>>)

\* the children of w:pPr other than w:pStyle: none; a flag set, and set to
\* false; two children in either order; an attribute under another name;
\* a bold flag set to false; run properties of the paragraph mark;
\* numbering properties
PPrShapes ==
    {<<>>,
     <<Jc>>,
     <<KeepNext>>,
     <<KeepNextOff>>,
     <<IndLeft>>,
     <<Jc, IndLeft>>,
     <<IndLeft, Jc>>,
     <<Elem("ind", <<Attr("val", "left720")>>, <<>>)>>,
     <<Elem("b", <<Attr("val", "false")>>, <<>>)>>,
     <<Elem("rPr", <<>>, <<Elem("b", <<>>, <<>>)>>)>>,
     <<Elem("numPr", <<>>, <<Elem("numId", <<Attr("val", "1")>>, <<>>),
                             Elem("ilvl", <<Attr("val", "0")>>, <<>>)>>)>>}

StyleKeyParagraphs ==
    {Para(st, pr, runs) :
        st \in {"Normal", "Heading1"}, pr \in PPrShapes,
        runs \in {<<Run(0, <<80>>)>>, <<Run(1, <<81>>), Run(0, <<82>>)>>}}

StyleKeyArchives ==
    {<<DocEntry(<<first, second, SectPr(1)>>)>> :
        first \in StyleKeyParagraphs, second \in StyleKeyParagraphs}

InitStyleKey ==
    /\ original_docx \in StyleKeyArchives
    /\ extracted = NoTree
    /\ analysis_json = NoAnalysis
    /\ edits_json = NoEdits
    /\ validation = NoValidation
    /\ applied = "never"
    /\ output_docx = NoOutput
    /\ session = <<>>
    /\ manager = NewManager

NextStyleKey == Analyze

SpecStyleKey == InitStyleKey /\ [][NextStyleKey]_vars

(***************************************************************************)
(* Sessions: one process calls analyze() on up to MaxSession documents,    *)
(* each into a work directory of its own, any document any number of       *)
(* times.                                                                  *)
(***************************************************************************)
MaxSession == 3

SessionArchives ==
    {<<DocEntry(<<PlainPara(<<80>>),
                  MkTable(1, 1, 1, FALSE, 9000, EvenGrid(1, 9000)), SectPr(1)>>)>>,
     <<DocEntry(<<MkTable(MaxRows, MaxCols, MaxParas, TRUE, 9000, EvenGrid(MaxCols, 9000)),
                  Para("Heading1", Centered, <<Run(1, <<72>>)>>),
                  MkTable(1, MaxCols, 1, FALSE, 9000, EvenGrid(MaxCols, 9000)),
                  SectPr(1)>>)>>,
     <<DocEntry(<<Para("Heading1", Centered, <<Run(1, <<72>>)>>), PlainPara(<<80>>),
                  SectPr(1)>>)>>,
     <<DocEntry(<<PlainPara(<<80>>), Para("Normal", <<KeepNext>>, <<Run(0, <<81>>)>>),
                  MkTable(MaxRows, 1, 1, FALSE, -1, EvenGrid(1, 9000))>>)>>,
     <<DocEntry(<<>>)>>}

InitSession ==
    /\ original_docx \in SessionArchives
    /\ extracted = NoTree
    /\ analysis_json = NoAnalysis
    /\ edits_json = NoEdits
    /\ validation = NoValidation
    /\ applied = "never"
    /\ output_docx = NoOutput
    /\ session = <<>>
    /\ manager = NewManager

\* analyze(docx_path, work_dir), called by a process that called it before
\* on the documents of the session
AnalyzeInSession ==
    /\ Len(session) < MaxSession
    /\ \E docx \in SessionArchives :
          /\ original_docx' = docx
          /\ extracted' = extract_docx_xml(docx)
          /\ analysis_json' = analyze(extracted')
          /\ session' = Append(session, [docx |-> docx, analysis |-> analysis_json'])
    /\ UNCHANGED <<edits_json, validation, applied, output_docx, manager>>

NextSession == AnalyzeInSession

SpecSession == InitSession /\ [][NextSession]_vars

(***************************************************************************)
(* Numbered lists: a document of up to MaxItems list paragraphs, each of   *)
(* numbering instance 1 or 2 at level 0 or 1, and the document of five     *)
(* items at the levels 0, 1, 1, 0, 1; word/numbering.xml defines level 0   *)
(* as decimal from 1 and level 1 as lowerLetter from 1.                    *)
(***************************************************************************)
MaxItems == 3

NumberingPart == [dir |-> "word", base |-> "numbering", ext |-> "xml"]

\* <w:numPr><w:ilvl w:val=".."/><w:numId w:val=".."/></w:numPr>
NumPr(ilvl, numId) ==
    Elem("numPr", <<>>, <<Elem("ilvl", <<Attr("val", ilvl)>>, <<>>),
                          Elem("numId", <<Attr("val", numId)>>, <<>>)>>)

\* item k of the document: its text is the letter k of "PQRST"
ListPara(use, k) == Para("ListParagraph", <<NumPr(use.ilvl, use.numId)>>, <<Run(0, <<79 + k>>)>>)

ListUse(numId, ilvl) == [numId |-> numId, ilvl |-> ilvl]

ListUses == {ListUse(n, l) : n \in {"1", "2"}, l \in {"0", "1"}}

LevelSequences ==
    (SeqsUpTo(ListUses, MaxItems) \ {<<>>})
    \cup {[k \in 1..5 |-> ListUse("1", <<"0", "1", "1", "0", "1">>[k])]}

ListArchives ==
    {<<DocEntry([k \in 1..Len(uses) |-> ListPara(uses[k], k)] \o <<SectPr(1)>>),
       Blob(NumberingPart, 3)>> : uses \in LevelSequences}

InitNumbering ==
    /\ original_docx \in ListArchives
    /\ extracted = NoTree
    /\ analysis_json = NoAnalysis
    /\ edits_json = NoEdits
    /\ validation = NoValidation
    /\ applied = "never"
    /\ output_docx = NoOutput
    /\ session = <<>>
    /\ manager = NewManager

NextNumbering == Analyze

SpecNumbering == InitNumbering /\ [][NextNumbering]_vars

(***************************************************************************)
(* Block edits: a document of a paragraph, a table and a second paragraph; *)
(* batches of block-level inserts, deletions and replacements, a row       *)
(* insert and a cell replacement.                                          *)
(***************************************************************************)
TextY == <<121>>
TextZ == <<122>>

BlockArchives ==
    {<<DocEntry(<<PlainPara(<<80>>),
                  MkTable(MaxRows, MaxCols, 1, FALSE, 9000, EvenGrid(MaxCols, 9000)),
                  last, SectPr(1)>>)>> :
        last \in {PlainPara(<<81>>), Para("Heading1", Centered, <<Run(1, <<72>>)>>)}}

\* the tag the analysis of a document of BlockArchives gives block b
TagOfBlock(b) == IF b = 1 THEN "TBL" ELSE "BODY"

BlockEdit(action, b, text) ==
    [BaseEdit EXCEPT !.action = action, !.target_id = BlockTarget(b),
                     !.semantic_tag = IF action \in {"replace", "delete"}
                                      THEN TagOfBlock(b) ELSE "BODY",
                     !.style_alias = IF action = "delete" THEN NoAlias ELSE S1,
                     !.new_text = text]

\* a new table after or before block b, of one row "x | y", from the
\* templates of the table of the document
TableInsert(action, b) ==
    [TableEdit(action, BlockTarget(b), "table", XPipeY)
        EXCEPT !.table_style_alias = <<"T", 1>>,
               !.row_style_aliases = <<RS0>>,
               !.cell_style_aliases = [nested |-> TRUE, items |-> <<<<CS0, CS0>>>>]]

BlockEdits ==
    {BlockEdit(a, b, t) : a \in {"insert_before", "insert_after"}, b \in 0..2,
                          t \in {X, TextY}}
    \cup {BlockEdit("delete", b, <<>>) : b \in 0..2}
    \cup {BlockEdit("replace", 0, TextY), BlockEdit("replace", 0, TextZ),
          BlockEdit("replace", 2, TextZ),
          BlockEdit("insert_after", 0, XNlY),
          TableInsert("insert_after", 1), TableInsert("insert_before", 2),
          RowInsert("insert_after", 0, XPipeY, RS0, <<CS0, CS0>>),
          TableEdit("insert_before", RowTarget(1, 0), "row", X),
          TableEdit("replace", CellParaTarget(1, 0, 0, 0), "cell", X)}

BlockBatches == SeqsUpTo(BlockEdits, MaxBatch) \ {<<>>}

InitBlocks ==
    /\ original_docx \in BlockArchives
    /\ extracted = NoTree
    /\ analysis_json = NoAnalysis
    /\ edits_json = NoEdits
    /\ validation = NoValidation
    /\ applied = "never"
    /\ output_docx = NoOutput
    /\ session = <<>>
    /\ manager = NewManager

NextBlocks == Analyze \/ WriteEdits(BlockBatches) \/ Validate \/ Apply

SpecBlocks == InitBlocks /\ [][NextBlocks]_vars

(***************************************************************************)
(* Coordinates: a document of one paragraph and one table of MaxRows + 1   *)
(* rows; batches that delete a row, a column or a paragraph of a cell and  *)
(* replace or insert elsewhere in the table.                               *)
(***************************************************************************)
CoordinateArchives ==
    {<<DocEntry(<<PlainPara(<<80>>),
                  MkTable(MaxRows + 1, MaxCols, MaxParas, FALSE, 9000, EvenGrid(MaxCols, 9000)),
                  SectPr(1)>>)>>}

CoordinateEdits ==
    {TableEdit("delete", RowTarget(1, r), "row", <<>>) : r \in 0..1}
    \cup {TableEdit("delete", ColTarget(1, 0), "column", <<>>),
          TableEdit("delete", CellParaTarget(1, 0, 0, 0), "cell", <<>>),
          TableEdit("replace", RowTarget(1, 1), "row", XPipeY),
          TableEdit("replace", CellParaTarget(1, 0, 0, 1), "cell", X),
          TableEdit("replace", CellParaTarget(1, 1, 1, 0), "cell", TextY),
          ColumnInsert("insert_after", 1, XNlY, <<CS0>>),
          ColumnInsert("insert_before", 0, XNlY, <<CS0>>),
          RowInsert("insert_after", 1, XPipeY, RS0, <<CS0, CS0>>)}

CoordinateBatches == SeqsUpTo(CoordinateEdits, MaxBatch) \ {<<>>}

InitCoordinates ==
    /\ original_docx \in CoordinateArchives
    /\ extracted = NoTree
    /\ analysis_json = NoAnalysis
    /\ edits_json = NoEdits
    /\ validation = NoValidation
    /\ applied = "never"
    /\ output_docx = NoOutput
    /\ session = <<>>
    /\ manager = NewManager

NextCoordinates == Analyze \/ WriteEdits(CoordinateBatches) \/ Validate \/ Apply

SpecCoordinates == InitCoordinates /\ [][NextCoordinates]_vars

(***************************************************************************)
(* Bookmarked paragraphs: a document of a paragraph that a bookmark spans  *)
(* and a plain paragraph; batches of replacements of either.               *)
(***************************************************************************)
\* the paragraph inside a bookmark: the start before its first run, the end
\* after its last
Bookmarked(para, id, name) ==
    [para EXCEPT !.lead = <<BookmarkStart(id, name)>>, !.trail = <<BookmarkEnd(id)>>]

BookmarkArchives ==
    {<<DocEntry(<<Bookmarked(first, 5, TocAnchor(123)), PlainPara(<<81>>), SectPr(1)>>)>> :
        first \in {PlainPara(<<80>>),
                   Para("Heading1", Centered, <<Run(1, <<72>>)>>),
                   Drawing(<<Run(1, <<68>>)>>)}}

BookmarkEdits ==
    {ParagraphReplace(b, text, alias, runs) :
        b \in 0..1, text \in {X, XNlY}, alias \in {NoAlias, S1},
        runs \in {<<>>, <<RunSpec(X, RunRS0)>>}}

BookmarkBatches == SeqsUpTo(BookmarkEdits, MaxBatch) \ {<<>>}

InitBookmarks ==
    /\ original_docx \in BookmarkArchives
    /\ extracted = NoTree
    /\ analysis_json = NoAnalysis
    /\ edits_json = NoEdits
    /\ validation = NoValidation
    /\ applied = "never"
    /\ output_docx = NoOutput
    /\ session = <<>>
    /\ manager = NewManager

NextBookmarks == Analyze \/ WriteEdits(BookmarkBatches) \/ Validate \/ Apply

SpecBookmarks == InitBookmarks /\ [][NextBookmarks]_vars

(***************************************************************************)
(* A table of contents: a structured tag of two entries with hyperlinks,   *)
(* the two headings the entries point to, each in its bookmark, and the    *)
(* section properties; batches of inserts, replacements and deletions of   *)
(* entries, with and without an anchor block, and of edits of the first    *)
(* heading.                                                                *)
(***************************************************************************)
Chars_One == <<79, 110, 101>>
Chars_Two == <<84, 119, 111>>
\* "3 A | 7", "4 B | 8"
EntryTextA == <<51, SP, 65, SP, PIPE, SP, 55>>
EntryTextB == <<52, SP, 66, SP, PIPE, SP, 56>>

TocArchives ==
    {<<DocEntry(<<Sdt(Chars_TOC, Chars_TableOfContents,
                      <<Entry("TOC1", 0, TocAnchor(100), <<49>>, Chars_One, <<51>>),
                        Entry("TOC1", 0, TocAnchor(101), <<50>>, Chars_Two, <<53>>)>>),
                  Bookmarked(Para("Heading1", <<>>, <<Run(1, Chars_One)>>), 1, TocAnchor(100)),
                  Bookmarked(Para("Heading1", <<>>, <<Run(1, Chars_Two)>>), 2, TocAnchor(101)),
                  SectPr(1)>>)>>}

EntryEdit(action, q, text, anchor_bid) ==
    [BaseEdit EXCEPT !.action = action, !.target_id = SdtParaTarget(0, q),
                     !.semantic_tag = "TOC", !.new_text = text,
                     !.anchor_block_id = anchor_bid]

TocEdits ==
    {EntryEdit(a, q, text, bid) :
        a \in {"insert_after", "insert_before"}, q \in 0..1,
        text \in {EntryTextA, EntryTextB}, bid \in {NoBlock, 1, 2}}
    \cup {EntryEdit("replace", q, EntryTextA, bid) : q \in 0..1, bid \in {NoBlock, 1}}
    \cup {EntryEdit("delete", q, <<>>, NoBlock) : q \in 0..1}
    \cup {[EntryEdit("insert_after", 0, EntryTextB, NoBlock) EXCEPT
              !.toc_level_alias = <<"TL", 0>>]}
    \cup {ParagraphReplace(1, X, NoAlias, <<>>),
          [BaseEdit EXCEPT !.action = "delete", !.target_id = BlockTarget(1)]}

TocBatches == SeqsUpTo(TocEdits, MaxBatch) \ {<<>>}

InitToc ==
    /\ original_docx \in TocArchives
    /\ extracted = NoTree
    /\ analysis_json = NoAnalysis
    /\ edits_json = NoEdits
    /\ validation = NoValidation
    /\ applied = "never"
    /\ output_docx = NoOutput
    /\ session = <<>>
    /\ manager = NewManager

NextToc == Analyze \/ WriteEdits(TocBatches) \/ Validate \/ Apply

SpecToc == InitToc /\ [][NextToc]_vars

(***************************************************************************)
(* Rendering with anchors: a table of contents, a heading in its bookmark, *)
(* a table and a paragraph; batches of block-level inserts, deletions and  *)
(* replacements, a row insert, and entry edits that name the heading or    *)
(* the paragraph as their anchor block.                                    *)
(***************************************************************************)
RenderArchives ==
    {<<DocEntry(<<Sdt(Chars_TOC, Chars_TableOfContents,
                      <<Entry("TOC1", 0, TocAnchor(100), <<49>>, Chars_One, <<51>>),
                        Entry("TOC1", 0, TocAnchor(101), <<50>>, Chars_Two, <<53>>)>>),
                  Bookmarked(Para("Heading1", <<>>, <<Run(1, Chars_One)>>), 1, TocAnchor(100)),
                  MkTable(MaxRows, MaxCols, 1, FALSE, 9000, EvenGrid(MaxCols, 9000)),
                  PlainPara(<<81>>),
                  SectPr(1)>>)>>}

BodyEdit(action, b, text) ==
    [BaseEdit EXCEPT !.action = action, !.target_id = BlockTarget(b),
                     !.semantic_tag = "BODY", !.new_text = text]

RenderEdits ==
    {EntryEdit("insert_after", 0, EntryTextA, 1),
     EntryEdit("insert_before", 1, EntryTextB, 1),
     EntryEdit("replace", 0, EntryTextA, 3),
     BodyEdit("insert_before", 1, X), BodyEdit("insert_after", 1, TextY),
     BodyEdit("insert_after", 1, TextZ),
     BodyEdit("insert_after", 0, X), BodyEdit("insert_after", 2, X),
     BodyEdit("delete", 0, <<>>), BodyEdit("delete", 1, <<>>),
     BodyEdit("replace", 3, TextZ),
     [BodyEdit("delete", 2, <<>>) EXCEPT !.semantic_tag = "TBL"],
     [TableEdit("insert_after", RowTarget(2, 0), "row", XPipeY)
         EXCEPT !.row_style_aliases = <<RS0>>,
                !.cell_style_aliases = [nested |-> TRUE, items |-> <<<<CS0, CS0>>>>]]}

RenderBatches == SeqsUpTo(RenderEdits, MaxBatch) \ {<<>>}

InitRender ==
    /\ original_docx \in RenderArchives
    /\ extracted = NoTree
    /\ analysis_json = NoAnalysis
    /\ edits_json = NoEdits
    /\ validation = NoValidation
    /\ applied = "never"
    /\ output_docx = NoOutput
    /\ session = <<>>
    /\ manager = NewManager

NextRender == Analyze \/ WriteEdits(RenderBatches) \/ Validate \/ Apply

SpecRender == InitRender /\ [][NextRender]_vars

(***************************************************************************)
(* The container of a session: MaxExecs callers of exec and one of stop on *)
(* one manager, docker starting up to MaxContainers containers.            *)
(***************************************************************************)
InitContainer ==
    /\ original_docx \in TocArchives
    /\ extracted = NoTree
    /\ analysis_json = NoAnalysis
    /\ edits_json = NoEdits
    /\ validation = NoValidation
    /\ applied = "never"
    /\ output_docx = NoOutput
    /\ session = <<>>
    /\ manager = NewManager

NextContainer ==
    \/ \E t \in ExecTasks : ExecCall(t)
    \/ \E t \in ExecTasks : DockerRunDone(t)
    \/ \E t \in ExecTasks : DockerRunFailed(t)
    \/ \E t \in ExecTasks : DockerExecDone(t)
    \/ StopCall
    \/ DockerRmDone

SpecContainer == InitContainer /\ [][NextContainer]_vars

(***************************************************************************)
(* Repacking: any archive of up to MaxEntries entries, names repeated or   *)
(* not, and any tree of files under those names.                           *)
(***************************************************************************)
MaxEntries == 3

RepackNames == {DocPart, Rels, Image}

\* the bytes of the entries of the archive, and the data of the files of
\* the tree, which are other bytes
ArchiveBytes == {1, 2}
TreeData == [bytes |-> 3, body |-> <<>>]

RepackArchives ==
    SeqsUpTo({Blob(n, k) : n \in RepackNames, k \in ArchiveBytes}, MaxEntries) \ {<<>>}

RepackTrees ==
    {[exists |-> TRUE, files |-> [n \in names |-> TreeData]] :
        names \in SUBSET RepackNames}

InitRepack ==
    /\ original_docx \in RepackArchives
    /\ extracted \in RepackTrees
    /\ analysis_json = NoAnalysis
    /\ edits_json = NoEdits
    /\ validation = NoValidation
    /\ applied = "never"
    /\ output_docx = NoOutput
    /\ session = <<>>
    /\ manager = NewManager

NextRepack == Repack

SpecRepack == InitRepack /\ [][NextRepack]_vars

(***************************************************************************)
(* Recomputing fields: packages of a document part, with or without a      *)
(* relationships part, an image and a settings part, the settings part     *)
(* before or after the document part; the package is analyzed, then        *)
(* repacked with --update-fields.                                          *)
(***************************************************************************)
SettingsContents ==
    {Settings("open", u) : u \in {"absent", "noval", "false", "0", "true"}}
    \cup {Settings("selfclosing", "absent"), Settings("unprefixed", "absent"),
          Settings("unprefixed", "false")}

\* <<>>: the package has no settings part
SettingsEntries == {<<>>} \cup {<<[name |-> SettingsPart, data |-> c]>> : c \in SettingsContents}

UpdateFieldsArchives ==
    {IF first THEN st \o <<DocEntry(<<para, SectPr(1)>>)>> \o others
     ELSE <<DocEntry(<<para, SectPr(1)>>)>> \o others \o st :
        st \in SettingsEntries, first \in BOOLEAN, para \in PipelineParagraphs,
        others \in {<<>>, <<Blob(Rels, 1)>>, <<Blob(Image, 1), Blob(Rels, 2)>>}}

InitUpdateFields ==
    /\ original_docx \in UpdateFieldsArchives
    /\ extracted = NoTree
    /\ analysis_json = NoAnalysis
    /\ edits_json = NoEdits
    /\ validation = NoValidation
    /\ applied = "never"
    /\ output_docx = NoOutput
    /\ session = <<>>
    /\ manager = NewManager

NextUpdateFields == Analyze \/ RepackUpdateFields

SpecUpdateFields == InitUpdateFields /\ [][NextUpdateFields]_vars

(***************************************************************************)
(* Coordinates of a table as analysis shows them to the author of the      *)
(* edits (lines of the text merge): the rows of a table are its w:tr       *)
(* children, the cells of a row its w:tc children, the paragraphs of a     *)
(* cell its w:p children.                                                  *)
(***************************************************************************)
RowCount(tbl) == Len(tbl.rows)
ColCount(tbl, r) == Len(tbl.rows[r + 1].cells)
ParaCount(tbl, r, c) == Len(tbl.rows[r + 1].cells[c + 1].paras)

HasErrorFor(v, i) == \E k \in 1..Len(v.errors) : v.errors[k].edit_index = i

\* validation is the result for the files as they are
Validated == validation.exists /\ validation = validate(analysis_json, edits_json.edits)

TableOf(b) == BlockOf(analysis_json.blocks, b).xml

\* C3: an edit, with any action, on a cell or a cell paragraph whose row is
\* not below the row count of the table, or whose column is not below the
\* column count of that row, or whose paragraph is not below the paragraph
\* count of that cell, gets an error and the batch is not valid.
C3_CellBoundsRejected ==
    Validated =>
        \A i \in 1..Len(edits_json.edits) :
            LET t == edits_json.edits[i].target_id
            IN (/\ t.shape \in {"cell", "cellpara"}
                /\ HasTableMeta(analysis_json.blocks, t.b)
                /\ \/ t.r >= RowCount(TableOf(t.b))
                   \/ t.c >= ColCount(TableOf(t.b), t.r)
                   \/ t.shape = "cellpara" /\ t.p >= ParaCount(TableOf(t.b), t.r, t.c))
               => HasErrorFor(validation, i - 1) /\ ~validation.valid

\* C4: an edit, with any action, on a row or a column whose index is not
\* below the row count, or the column count, of the table gets an error.
C4_RowColBoundsRejected ==
    Validated =>
        \A i \in 1..Len(edits_json.edits) :
            LET t == edits_json.edits[i].target_id
            IN (/\ t.shape \in {"row", "col"}
                /\ HasTableMeta(analysis_json.blocks, t.b)
                /\ \/ t.shape = "row" /\ t.r >= RowCount(TableOf(t.b))
                   \/ t.shape = "col" /\ t.c >= ColCount(TableOf(t.b), 0))
               => HasErrorFor(validation, i - 1)

\* the paragraphs of cell (r, c) of block b that the batch deletes
DeletedParas(edits, b, r, c) ==
    {edits[i].target_id.p : i \in {j \in 1..Len(edits) :
        /\ edits[j].action = "delete"
        /\ edits[j].target_id.shape = "cellpara"
        /\ edits[j].target_id.b = b
        /\ edits[j].target_id.r = r
        /\ edits[j].target_id.c = c}}

\* the batch deletes every paragraph of some cell of some table
EmptiesACell(blocks, edits) ==
    \E k \in 1..Len(blocks) :
        /\ blocks[k].type = "tbl"
        /\ \E r \in 0..RowCount(blocks[k].xml) - 1 :
            \E c \in 0..ColCount(blocks[k].xml, r) - 1 :
                0..ParaCount(blocks[k].xml, r, c) - 1
                    \subseteq DeletedParas(edits, blocks[k].id, r, c)

\* C5: a batch whose deletes of cell paragraphs would leave a cell without
\* paragraphs is rejected: an error is reported and the batch is not valid.
C5_CellFloorRejected ==
    (Validated /\ EmptiesACell(analysis_json.blocks, edits_json.edits))
        => Len(validation.errors) > 0 /\ ~validation.valid

(***************************************************************************)
(* The apply stage.                                                        *)
(***************************************************************************)
\* the document part of the tree was written by the run of apply
DocumentWritten == applied = "ok"

\* C1: the apply stage writes word/document.xml in the tree only if the
\* whole edit list passes validation.
C1_ValidationPrecedesMutation ==
    DocumentWritten => validate(analysis_json, edits_json.edits).valid

\* the children of the body of the document part of an archive or a tree
OriginalBody == ZipRead(original_docx, DocPart).body
TreeBody == extracted.files[DocPart].body

IsSectPr(el) == el.kind = "sectPr"

\* C2: the section properties that are a child of the original body are
\* still a child, unchanged, of the body that apply wrote.
C2_SectionPropertiesKept ==
    DocumentWritten =>
        \A i \in 1..Len(OriginalBody) :
            IsSectPr(OriginalBody[i])
                => \E j \in 1..Len(TreeBody) : TreeBody[j] = OriginalBody[i]

\* every cell below a table: the cells of every w:tr of it
AllCells(tbl) ==
    UNION {{row.cells[c] : c \in 1..Len(row.cells)} :
              row \in {DescRows(tbl)[r] : r \in 1..Len(DescRows(tbl))}}

EmittedTables == {TreeBody[j] : j \in {k \in 1..Len(TreeBody) : TreeBody[k].kind = "tbl"}}

\* C6: after any batch of edits of a table, every cell of the emitted
\* table, the new cells too, has at least one paragraph.
C6_CellKeepsAParagraph ==
    DocumentWritten =>
        \A tbl \in EmittedTables : \A cell \in AllCells(tbl) : Len(cell.paras) >= 1

\* C7: a run of apply that fails leaves the document part of the tree, and
\* the original archive, as they were before the run.
C7_FailureLeavesDocumentIntact ==
    [][applied' = "failed" => (extracted' = extracted /\ original_docx' = original_docx)]_vars

\* a run of apply failed, and the tree holds the extraction of the original
C7_Witness ==
    /\ applied = "failed"
    /\ extracted = extract_docx_xml(original_docx)

\* the batch is made of column insertions only
ColumnInsertsOnly(edits) ==
    /\ edits # <<>>
    /\ \A i \in 1..Len(edits) :
        /\ IsInsert(edits[i].action)
        /\ edits[i].target_id.shape = "col"
        /\ edits[i].edit_unit = "column"
        /\ edits[i].cell_style_aliases.items # <<>>

\* the widths of the columns of a table: its grid
ColumnWidths(tbl) == tbl.grid

\* C10: after column insertions the sum of the widths of all columns of
\* the table is the sum of the widths of its columns before.
C10_ColumnWidthConserved ==
    (DocumentWritten /\ ColumnInsertsOnly(edits_json.edits)) =>
        \A k \in 1..Len(analysis_json.blocks) :
            analysis_json.blocks[k].type = "tbl"
                => SumSeq(ColumnWidths(TreeBody[k]))
                       = SumSeq(ColumnWidths(analysis_json.blocks[k].xml))

\* the batch is one insertion of a row after row r of a table, with the
\* alias of a row, one cell alias for each text and one text for each
\* column of row r, and passes validation
OneRowInsert(an, edits) ==
    /\ Len(edits) = 1
    /\ edits[1].action = "insert_after"
    /\ edits[1].target_id.shape = "row"
    /\ edits[1].edit_unit = "row"
    /\ HasTableMeta(an.blocks, edits[1].target_id.b)
    /\ edits[1].target_id.r < RowCount(BlockOf(an.blocks, edits[1].target_id.b).xml)
    /\ Len(StrippedFields(edits[1].new_text, PIPE))
           = ColCount(BlockOf(an.blocks, edits[1].target_id.b).xml, edits[1].target_id.r)
    /\ Len(edits[1].row_style_aliases) = 1
    /\ DictGet(an.style_alias_map, edits[1].row_style_aliases[1], NoPayload).tag = "trPr"
    /\ validate(an, edits).valid

\* the text of a cell: its w:t texts, one after the other
CellText(tc) == Concat(CellTexts(tc))

\* C11: after the insertion of a row after row r of a table of n rows, one
\* text for each column, the table has n + 1 rows, row r + 1 holds the
\* texts, the other rows are the rows of the original in their order, and
\* the widths of the columns are those of the original.
C11_RowInserted ==
    (DocumentWritten /\ OneRowInsert(analysis_json, edits_json.edits)) =>
        LET edit == edits_json.edits[1]
            r == edit.target_id.r
            k == CHOOSE i \in 1..Len(analysis_json.blocks) :
                     analysis_json.blocks[i].id = edit.target_id.b
            before == analysis_json.blocks[k].xml
            after == TreeBody[k]
            texts == StrippedFields(edit.new_text, PIPE)
        IN /\ after.kind = "tbl"
           /\ RowCount(after) = RowCount(before) + 1
           /\ Len(after.rows[r + 2].cells) = Len(texts)
           /\ \A c \in 1..Len(texts) : CellText(after.rows[r + 2].cells[c]) = texts[c]
           /\ \A i \in 1..RowCount(before) :
                  after.rows[IF i <= r + 1 THEN i ELSE i + 1] = before.rows[i]
           /\ SumSeq(ColumnWidths(after)) = SumSeq(ColumnWidths(before))

(***************************************************************************)
(* Paragraph edits.                                                        *)
(***************************************************************************)
\* the batch is one replace of a paragraph block that holds no drawing,
\* with a text on one line
OneParagraphReplace(an, edits) ==
    /\ Len(edits) = 1
    /\ edits[1].action = "replace"
    /\ edits[1].target_id.shape = "block"
    /\ HasBlock(an.blocks, edits[1].target_id.b)
    /\ BlockOf(an.blocks, edits[1].target_id.b).type = "p"
    /\ BlockOf(an.blocks, edits[1].target_id.b).xml.obj = <<>>
    /\ ~Contains(edits[1].new_text, NL)

\* the name of a tag without its prefix: namespace and local name
ExpandedName(tag) == IF tag = <<>> THEN tag ELSE <<tag[2], tag[3]>>

\* the same element, whatever the prefixes it is written with
SameElement(a, b) ==
    IF a.kind = "p" /\ b.kind = "p"
    THEN [a EXCEPT !.obj = ExpandedName(@)] = [b EXCEPT !.obj = ExpandedName(@)]
    ELSE a = b

\* the edit carries no run-distribution spec, or one whose texts add up
\* to the new text
RunsAgree(edit) ==
    edit.runs = <<>> \/ Concat([j \in 1..Len(edit.runs) |-> edit.runs[j].text]) = edit.new_text

\* C12: after the replace of a paragraph block by a text t on one line, the
\* body holds at the place of the block one paragraph, whose text is t and
\* whose style key is that of the block, whatever the style alias of the
\* edit and the runs of the block.
C12_ParagraphReplaced ==
    (/\ DocumentWritten
     /\ OneParagraphReplace(analysis_json, edits_json.edits)
     /\ RunsAgree(edits_json.edits[1])) =>
        LET edit == edits_json.edits[1]
            k == CHOOSE i \in 1..Len(analysis_json.blocks) :
                     analysis_json.blocks[i].id = edit.target_id.b
        IN /\ Len(TreeBody) = Len(analysis_json.blocks)
           /\ TreeBody[k].kind = "p"
           /\ _extract_paragraph_text(TreeBody[k]) = edit.new_text
           /\ _generate_style_key(TreeBody[k]) = analysis_json.blocks[k].style_key
           /\ \A j \in 1..Len(TreeBody) :
                 j # k => SameElement(TreeBody[j], analysis_json.blocks[j].xml)

\* the paragraphs of a body that hold a drawing, in their order
ObjParas(body) == SelectSeq(body, LAMBDA el : el.kind = "p" /\ el.obj # <<>>)

\* the batch deletes block b
DeletedBy(edits, b) ==
    \E i \in 1..Len(edits) : edits[i].action = "delete" /\ edits[i].target_id.b = b

\* the replace edits of block b, in the order of the batch
ReplacesOf(edits, b) ==
    SelectSeq(edits, LAMBDA e : e.action = "replace" /\ e.target_id.b = b)

\* the paragraph blocks that hold a drawing and that the batch does not
\* delete, in their order
KeptObjBlocks(an, edits) ==
    SelectSeq(an.blocks, LAMBDA blk : /\ blk.type = "p"
                                      /\ blk.xml.obj # <<>>
                                      /\ ~DeletedBy(edits, blk.id))

\* a paragraph without its texts: its properties, its runs and their w:t
\* children, its drawing
Skeleton(para) ==
    [para EXCEPT !.runs = [j \in 1..Len(@) |->
        [@[j] EXCEPT !.text = <<>>, !.more = [k \in 1..Len(@) |-> <<>>]]]]

\* text in the first w:t, every other w:t empty
TextInFirst(para, text) ==
    ParaTexts(para) = [i \in 1..Len(ParaTexts(para)) |-> IF i = 1 THEN text ELSE <<>>]

\* C13: a paragraph that holds a non-text object (drawing, picture, shape,
\* alternate content) gets no run built from a template: the mapper gives
\* its replace edits no runs, with or without a run-distribution spec, and
\* the body that apply writes holds the paragraph with its properties,
\* runs and object, its first w:t holding
\* the new text when the batch replaces it.
C13_EmbeddedObjectKept ==
    (analysis_json.exists /\ edits_json.exists) =>
        /\ \A i \in 1..Len(edits_json.edits) :
              LET edit == edits_json.edits[i]
              IN (/\ edit.action = "replace"
                  /\ HasBlock(analysis_json.blocks, edit.target_id.b)
                  /\ BlockOf(analysis_json.blocks, edit.target_id.b).type = "p"
                  /\ BlockOf(analysis_json.blocks, edit.target_id.b).xml.obj # <<>>)
                 => generate_new_blocks(edits_json.edits, analysis_json)[i].run_xmls = <<>>
        /\ DocumentWritten =>
              LET kept == KeptObjBlocks(analysis_json, edits_json.edits)
                  out == ObjParas(TreeBody)
              IN /\ Len(out) = Len(kept)
                 /\ \A n \in 1..Len(kept) :
                       LET replaces == ReplacesOf(edits_json.edits, kept[n].id)
                       IN /\ SameElement(Skeleton(out[n]), Skeleton(kept[n].xml))
                          /\ IF replaces = <<>> THEN SameElement(out[n], kept[n].xml)
                             ELSE TextInFirst(out[n], replaces[1].new_text)

\* the errors of the validation result that edit i (1-based) raised under
\* one of the checks
ErrorsOf(i, checks) ==
    {k \in 1..Len(validation.errors) :
        /\ validation.errors[k].edit_index = i - 1
        /\ validation.errors[k].check \in checks}

\* the aliases an edit references: its paragraph style alias, its table
\* style alias, its row style aliases and its cell style aliases
ReferencedAliases(edit) ==
    ({edit.style_alias, edit.table_style_alias} \ {NoAlias})
    \cup {edit.row_style_aliases[j] : j \in 1..Len(edit.row_style_aliases)}
    \cup {FlatCellAliases(edit.cell_style_aliases)[j] :
             j \in 1..Len(FlatCellAliases(edit.cell_style_aliases))}

AliasChecks == {"style_alias", "table_style_alias", "row_style_alias", "cell_style_alias"}

\* C14: after validation, every edit of the batch that is not a delete and
\* references an alias that the alias map does not hold has an error of an
\* alias check, and the result is not valid, whatever the other fields of
\* the edit.
C14_AliasesResolve ==
    Validated =>
        \A i \in 1..Len(edits_json.edits) :
            LET edit == edits_json.edits[i]
            IN (/\ edit.action # "delete"
                /\ \E a \in ReferencedAliases(edit) : ~DictHas(analysis_json.style_alias_map, a))
               => /\ ErrorsOf(i, AliasChecks) # {}
                  /\ ~validation.valid

\* the block of a coordinate is a block of the analysis of the given type
TargetsBlockOfType(t, type) ==
    \E k \in 1..Len(analysis_json.blocks) :
        analysis_json.blocks[k].id = t.b /\ analysis_json.blocks[k].type = type

\* the coordinate of an edit disagrees with the type of its block
TypeDisagrees(t) ==
    \/ t.shape \in {"row", "cell", "cellpara", "col"} /\ ~TargetsBlockOfType(t, "tbl")
    \/ t.shape = "sdtpara" /\ ~TargetsBlockOfType(t, "sdt")
    \/ t.shape \notin {"block", "row", "cell", "cellpara", "col", "sdtpara"}

\* C15: after validation, every edit whose row, cell, cell-paragraph or
\* column coordinate names a block that is missing or is not a table, whose
\* entry coordinate names a block that is missing or is not a
\* structured-tag block, or whose target has none of the six shapes, has a
\* target_id error, and the result is not valid.
C15_TypeAgreement ==
    Validated =>
        \A i \in 1..Len(edits_json.edits) :
            TypeDisagrees(edits_json.edits[i].target_id)
            => /\ ErrorsOf(i, {"target_id"}) # {}
               /\ ~validation.valid

\* validation rejected a batch of a cell of the paragraph and an entry of
\* the table, each for its target
C15_Witness ==
    /\ Validated
    /\ Len(edits_json.edits) = 2
    /\ edits_json.edits[1].target_id = CellTarget(0, 0, 0)
    /\ edits_json.edits[2].target_id = SdtParaTarget(1, 0)
    /\ ErrorsOf(1, {"target_id"}) # {}
    /\ ErrorsOf(2, {"target_id"}) # {}
    /\ ~validation.valid

\* a non-delete edit whose new text holds a line break
HasLineBreak(edit) == edit.action # "delete" /\ Contains(edit.new_text, NL)

\* the edit targets a paragraph block as a whole
TargetsPlainParagraph(edit) ==
    edit.target_id.shape = "block" /\ TargetsBlockOfType(edit.target_id, "p")

\* the edit is a table edit (a table block or a coordinate within one) or
\* an entry edit (an entry coordinate)
TableOrEntryEdit(edit) ==
    \/ /\ edit.target_id.shape \in {"block", "row", "cell", "cellpara", "col"}
       /\ TargetsBlockOfType(edit.target_id, "tbl")
    \/ edit.target_id.shape = "sdtpara"

\* C16: after validation, an edit whose new text holds a line break has a
\* newline error when it targets a paragraph block, and has none when it is
\* a table edit or an entry edit.
C16_LineBreakBan ==
    Validated =>
        \A i \in 1..Len(edits_json.edits) :
            LET edit == edits_json.edits[i]
            IN HasLineBreak(edit) =>
                  /\ TargetsPlainParagraph(edit) =>
                        ErrorsOf(i, {"newline"}) # {} /\ ~validation.valid
                  /\ TableOrEntryEdit(edit) => ErrorsOf(i, {"newline"}) = {}

\* the run templates of the paragraph style the mapper gives the edit
RunPool(edit) ==
    DictGet(analysis_json.paragraph_style_templates,
            NewBlockOf(edit, analysis_json).style_key, NoTemplate).run_style_templates

\* a replace of a paragraph block, under a paragraph tag, that carries a
\* run-distribution spec
ParagraphEditWithRuns(edit) ==
    /\ edit.action = "replace"
    /\ TargetsPlainParagraph(edit)
    /\ edit.semantic_tag \in PARAGRAPH_TAGS
    /\ edit.runs # <<>>

\* C17: after validation, a paragraph edit with a run-distribution spec
\* has a runs error when a run names a style that the run templates of the
\* paragraph style of the edit do not hold; a spec whose texts do not add up
\* to the new text gives a warning and no error; the result is valid
\* exactly when it has no error.
C17_RunDistribution ==
    Validated =>
        /\ validation.valid <=> validation.errors = <<>>
        /\ \A i \in 1..Len(edits_json.edits) :
              LET edit == edits_json.edits[i]
              IN ParagraphEditWithRuns(edit) =>
                    /\ (\E j \in 1..Len(edit.runs) :
                           /\ edit.runs[j].run_style # NoAlias
                           /\ ~DictHas(RunPool(edit), edit.runs[j].run_style))
                       => ErrorsOf(i, {"runs"}) # {}
                    /\ (/\ ~RunsAgree(edit)
                        /\ \A j \in 1..Len(edit.runs) :
                              \/ edit.runs[j].run_style = NoAlias
                              \/ DictHas(RunPool(edit), edit.runs[j].run_style))
                       => /\ ErrorsOf(i, {"runs"}) = {}
                          /\ \E k \in 1..Len(validation.warnings) :
                                /\ validation.warnings[k].edit_index = i - 1
                                /\ validation.warnings[k].check = "runs"

\* the on/off elements of the universe
OnOffTags == {"keepNext", "b"}

\* an on/off element set to false and nothing else
ExplicitFalse(elem) ==
    /\ elem.tag \in OnOffTags
    /\ elem.children = <<>>
    /\ Len(elem.attrs) = 1
    /\ elem.attrs[1].name = "val" /\ elem.attrs[1].value \in {"0", "false"}

\* an element up to the order of its attributes and of its children
RECURSIVE Unordered(_)
Unordered(elem) ==
    [tag |-> elem.tag,
     attrs |-> {elem.attrs[i] : i \in 1..Len(elem.attrs)},
     children |-> {Unordered(elem.children[i]) : i \in 1..Len(elem.children)}]

\* the formatting-relevant structure of a paragraph: its named style and
\* the children of its properties other than the run properties and the
\* flags set to false, in any order
FormattingOf(para) ==
    [pStyle |-> para.pStyle,
     children |-> {Unordered(para.pPr[i]) :
                      i \in {k \in 1..Len(para.pPr) :
                                para.pPr[k].tag # "rPr" /\ ~ExplicitFalse(para.pPr[k])}}]

\* the style alias the text representation gives a paragraph block
AliasOfBlock(blk) ==
    CHOOSE a \in DictKeys(analysis_json.style_alias_map) :
        LET payload == DictGet(analysis_json.style_alias_map, a, NoPayload)
        IN payload.tag = "key" /\ payload.key = blk.style_key

\* C18: after the analysis of a document of two paragraphs with text, the
\* two have the same style alias exactly when they have the same named
\* style and the same paragraph properties, up to the order of the children
\* and to flags set to false, whatever their runs.
C18_DedupCorrect ==
    (analysis_json.exists /\ Len(analysis_json.blocks) = 2) =>
        (AliasOfBlock(analysis_json.blocks[1]) = AliasOfBlock(analysis_json.blocks[2])
         <=> FormattingOf(OriginalBody[1]) = FormattingOf(OriginalBody[2]))

UpdateFieldsOn(content) == content.root = "open" /\ content.updateFields \in {"true", "noval"}

HasSettingsPart(arch) == \E i \in 1..Len(arch) : arch[i].name = SettingsPart

\* C20: after a repack with --update-fields, the output archive has a
\* settings part, and its update-fields setting is true, whether the
\* original had the setting, had a settings part without it, or had no
\* settings part.
C20_UpdateFieldsSet ==
    output_docx.exists =>
        /\ HasSettingsPart(output_docx.entries)
        /\ UpdateFieldsOn(ZipRead(output_docx.entries, SettingsPart))

(***************************************************************************)
(* List numbering.                                                         *)
(***************************************************************************)
\* the numbering properties of an analyzed paragraph
NumPrOf(xml) == {xml.pPr[i] : i \in {j \in 1..Len(xml.pPr) : xml.pPr[j].tag = "numPr"}}

ValOf(numPr, tag) ==
    The({numPr.children[i].attrs[1].value :
            i \in {j \in 1..Len(numPr.children) : numPr.children[j].tag = tag}})

IsListBlock(block) == block.type = "p" /\ NumPrOf(block.xml) # {}

UseOf(block) ==
    LET numPr == The(NumPrOf(block.xml))
    IN ListUse(ValOf(numPr, "numId"), ValOf(numPr, "ilvl"))

\* the running counter of level lvl of instance numId after the blocks
\* 1..n: a use of the level increments it, a use of a shallower level of
\* the instance resets it
RECURSIVE CounterAfter(_, _, _, _)
CounterAfter(blocks, n, numId, lvl) ==
    IF n = 0 THEN 0
    ELSE LET before == CounterAfter(blocks, n - 1, numId, lvl)
         IN IF ~IsListBlock(blocks[n]) \/ UseOf(blocks[n]).numId # numId THEN before
            ELSE IF UseOf(blocks[n]).ilvl = lvl THEN before + 1
            ELSE IF UseOf(blocks[n]).ilvl = "0" /\ lvl = "1" THEN 0
            ELSE before

\* decimal for level 0, lowerLetter for level 1
NumeralOf(lvl, n) == IF lvl = "0" THEN Str(n) ELSE <<96 + n>>

ExpectedPrefix(blocks, n) ==
    NumeralOf(UseOf(blocks[n]).ilvl,
              CounterAfter(blocks, n, UseOf(blocks[n]).numId, UseOf(blocks[n]).ilvl))

\* what the analyzed text of a paragraph holds before the text of its runs
PrefixOf(block) ==
    LET own == _extract_paragraph_text(block.xml)
        k == Len(block.text) - Len(own)
    IN IF k >= 0 /\ SubSeq(block.text, k + 1, Len(block.text)) = own
       THEN SubSeq(block.text, 1, k) ELSE block.text

\* C21: the text the analyzer gives a list paragraph carries the prefix of
\* its numbering: per numbering instance, one running counter per level,
\* incremented on use and reset when a shallower level is used, written in
\* the numeral system of the level; the levels 0, 1, 1, 0, 1 give the
\* prefixes 1, a, b, 2, a.
C21_NumberingPrefixes ==
    analysis_json.exists =>
        \A n \in 1..Len(analysis_json.blocks) :
            IsListBlock(analysis_json.blocks[n]) =>
                PrefixOf(analysis_json.blocks[n]) = ExpectedPrefix(analysis_json.blocks, n)

(***************************************************************************)
(* The order of the assembled body.                                        *)
(***************************************************************************)
\* the marked blocks of the batch, as apply_edits.py computes them
MarkedBlocks ==
    apply_mapping_to_blocks(analysis_json.blocks,
                            generate_new_blocks(edits_json.edits, analysis_json))

\* the elements a list of block-level insert specs stands for, in the order
\* of the list
InsertedContent(inserts) ==
    Concat([i \in 1..Len(inserts) |->
        BlockInsertXml(inserts[i], analysis_json.paragraph_style_templates,
                       analysis_json.table_style_templates, analysis_json.style_alias_map)])

\* the inserts of a list of _inserts_after that insert content after the
\* block, not a row or a paragraph inside a table
BlockLevel(inserts) ==
    SelectSeq(inserts, LAMBDA ins : /\ ins.original_target_id.shape \notin {"row", "cellpara"}
                                    /\ ins.edit_unit # "row")

StartsWith(s, pre) == Len(pre) <= Len(s) /\ SubSeq(s, 1, Len(pre)) = pre

\* sub is s with some of its elements left out
RECURSIVE IsSubsequence(_, _)
IsSubsequence(sub, s) ==
    IF sub = <<>> THEN TRUE
    ELSE IF s = <<>> THEN FALSE
    ELSE IF Head(sub) = Head(s) THEN IsSubsequence(Tail(sub), Tail(s))
    ELSE IsSubsequence(sub, Tail(s))

\* el is the inserted element new, or the inserted table new with rows
\* added to it (the rows a row insert adds are the matter of C23)
IsInserted(el, new) ==
    \/ el = new
    \/ /\ el.kind = "tbl" /\ new.kind = "tbl"
       /\ [el EXCEPT !.rows = <<>>] = [new EXCEPT !.rows = <<>>]
       /\ IsSubsequence(new.rows, el.rows)

\* s starts with the inserted elements news, in their order
StartsWithInserted(s, news) ==
    Len(news) <= Len(s) /\ \A j \in 1..Len(news) : IsInserted(s[j], news[j])

Drop(s, k) == SubSeq(s, k + 1, Len(s))

\* no edit of the batch is an edit of the block: none replaces it or
\* changes a part of it, and every insert after it is of content after it
Unedited(m) == ~m.replaced /\ BlockLevel(m.inserts_after) = m.inserts_after

\* markers is a list of bookmarks, each a start and right after it its end
RECURSIVE IsBookmarkPairs(_)
IsBookmarkPairs(markers) ==
    \/ markers = <<>>
    \/ /\ Len(markers) >= 2
       /\ markers[1].tag = "bookmarkStart"
       /\ markers[2].tag = "bookmarkEnd"
       /\ markers[2].id = markers[1].id
       /\ IsBookmarkPairs(Drop(markers, 2))

\* el is the paragraph xml with bookmarks put in right after its properties
IsWithBookmarks(el, xml) ==
    /\ el.kind = "p" /\ xml.kind = "p"
    /\ [el EXCEPT !.lead = xml.lead] = xml
    /\ \E n \in 1..Len(el.lead) :
          /\ Drop(el.lead, n) = xml.lead
          /\ IsBookmarkPairs(SubSeq(el.lead, 1, n))

\* an entry edit of the batch names the block as its anchor block
IsAnchorBlock(id) ==
    \E i \in 1..Len(edits_json.edits) :
        /\ edits_json.edits[i].semantic_tag = "TOC"
        /\ edits_json.edits[i].anchor_block_id = id

\* el is the XML of the block as it was; when anchors tells so, a paragraph
\* that is an anchor block may have got bookmarks
Same(el, block, anchors) ==
    \/ el = block.xml
    \/ anchors /\ IsAnchorBlock(block.id) /\ IsWithBookmarks(el, block.xml)

\* body is made, block by block from block i on, of: nothing for a block
\* marked deleted; else the content inserted before the block, the block
\* (its XML, as Same tells, when it has no edit, any elements otherwise), the
\* content inserted after the block
RECURSIVE InRenderOrder(_, _, _, _)
InRenderOrder(body, mbs, i, anchors) ==
    IF i > Len(mbs) THEN body = <<>>
    ELSE IF mbs[i].m.deleted THEN InRenderOrder(body, mbs, i + 1, anchors)
    ELSE LET before == InsertedContent(mbs[i].m.inserts_before)
             after == InsertedContent(BlockLevel(mbs[i].m.inserts_after))
         IN /\ StartsWith(body, before)
            /\ \E k \in 0..(Len(body) - Len(before)) :
                  /\ Unedited(mbs[i].m) =>
                        k = 1 /\ Same(body[Len(before) + 1], mbs[i].block, anchors)
                  /\ StartsWithInserted(Drop(body, Len(before) + k), after)
                  /\ InRenderOrder(Drop(body, Len(before) + k + Len(after)), mbs, i + 1,
                                   anchors)

IsRowInsertAfter(edit) ==
    edit.action = "insert_after" /\ edit.edit_unit = "row" /\ edit.target_id.shape = "row"

\* the marked blocks and the body content apply_edits.py computes for a
\* batch on the analysis of the work directory
MarkedBlocksFor(edits) ==
    apply_mapping_to_blocks(analysis_json.blocks, generate_new_blocks(edits, analysis_json))

BodyFor(edits) ==
    assemble_document_xml(MarkedBlocksFor(edits), analysis_json.paragraph_style_templates,
                          analysis_json.table_style_templates,
                          analysis_json.toc_style_templates,
                          analysis_json.style_alias_map).parts

\* the number of elements the batch puts before the element of block b
EmittedBefore(edits, b) ==
    LET mbs == MarkedBlocksFor(edits)
        i == CHOOSE j \in 1..Len(mbs) : mbs[j].block.id = b
    IN Len(assemble_document_xml(SubSeq(mbs, 1, i - 1),
                                 analysis_json.paragraph_style_templates,
                                 analysis_json.table_style_templates,
                                 analysis_json.toc_style_templates,
                                 analysis_json.style_alias_map).parts)
       + Len(InsertedContent(mbs[i].m.inserts_before))

\* the table with the rows of the row inserts added, one insert after the
\* other
RECURSIVE WithRowsAdded(_, _, _)
WithRowsAdded(table_xml, row_inserts, block) ==
    IF row_inserts = <<>> THEN table_xml
    ELSE LET edit == Head(row_inserts)
         IN WithRowsAdded(
                _table_add_row(table_xml, edit.target_id.r,
                               StrippedFields(edit.new_text, PIPE),
                               AtOr(edit.row_style_aliases, 0, NoAlias),
                               AliasRow(edit.cell_style_aliases, 1),
                               analysis_json.table_style_templates, block.style_key,
                               analysis_json.style_alias_map),
                Tail(row_inserts), block)

\* C23: a row inserted after a row of table T changes the emitted table T
\* and nothing else: the body of the batch is the body of the batch without
\* its row inserts, with the rows added to the element of T.  This holds
\* whatever block-level inserts on T and replacements inside T the batch
\* also holds.
C23_RowInsertChangesItsTable ==
    LET edits == edits_json.edits
        row_inserts == SelectSeq(edits, IsRowInsertAfter)
        others == SelectSeq(edits, LAMBDA e : ~IsRowInsertAfter(e))
        T == row_inserts[1].target_id.b
        mbs == MarkedBlocksFor(others)
        mb == mbs[CHOOSE j \in 1..Len(mbs) : mbs[j].block.id = T]
        k == EmittedBefore(others, T) + 1
    IN DocumentWritten /\ row_inserts # <<>> =>
          TreeBody = IF mb.m.deleted THEN BodyFor(others)
                     ELSE [BodyFor(others) EXCEPT ![k] =
                              WithRowsAdded(@, row_inserts, mb.block)]

(***************************************************************************)
(* Edits that validation accepts and the assembly drops.                   *)
(***************************************************************************)
Count(e, s) == Cardinality({i \in 1..Len(s) : s[i] = e})

\* the insert specs of the block-level inserts of the batch on the blocks
\* of the analysis, and the elements they stand for
BlockLevelInserts ==
    Concat([i \in 1..Len(MarkedBlocks) |->
        SelectSeq(MarkedBlocks[i].m.inserts_before \o MarkedBlocks[i].m.inserts_after,
                  LAMBDA ins : ins.original_target_id.shape = "block")])

\* every element the inserts stand for is in the body (an inserted table
\* possibly with rows added), as many times as the inserts give it
InsertsContribute ==
    LET content == InsertedContent(BlockLevelInserts)
    IN \A j \in 1..Len(content) :
          Cardinality({i \in 1..Len(TreeBody) : IsInserted(TreeBody[i], content[j])})
              >= Count(content[j], content)

\* every replace of a plain paragraph that the batch does not delete shows
\* in the body: the paragraphs it renders are elements of the body
ReplacesShow ==
    \A i \in 1..Len(MarkedBlocks) :
        LET block == MarkedBlocks[i].block
            m == MarkedBlocks[i].m
        IN block.type = "p" /\ ~_has_non_text_content(block.xml) /\ ~m.deleted =>
              \A j \in 1..Len(m.replacements) :
                 LET rendered == ReplacedParagraph(block, m.replacements[j],
                                     analysis_json.paragraph_style_templates)
                 IN \A n \in 1..Len(rendered) : Count(rendered[n], TreeBody) > 0

\* C29: when the batch passed validation and the document was written,
\* every block-level insert on a block of the document has its content in
\* the body, also when the batch deletes that block, and every replace of a
\* plain paragraph shows in the body, also when the batch replaces the same
\* paragraph more than once.
C29_NoAcceptedEditLost ==
    validation.exists /\ validation.valid /\ DocumentWritten =>
        InsertsContribute /\ ReplacesShow

(***************************************************************************)
(* Coordinates of a batch.                                                 *)
(***************************************************************************)
\* the index, after the deletions, of what had index idx before them
Shifted(idx, deleted) == idx - Cardinality({j \in 1..Len(deleted) : deleted[j] < idx})

IsDistinct(s) == \A i, j \in 1..Len(s) : s[i] = s[j] => i = j

\* no replacement or insert of the marks names a row, a column or a
\* paragraph that the marks delete, and no index is deleted twice
TargetsSurvive(m, row_inserts) ==
    LET Gone(tid) ==
            \/ tid.shape \in {"row", "cell", "cellpara"}
               /\ \E j \in 1..Len(m.row_deletions) : m.row_deletions[j] = tid.r
            \/ tid.shape \in {"col", "cell", "cellpara"}
               /\ \E j \in 1..Len(m.col_deletions) : m.col_deletions[j] = tid.c
            \/ tid.shape = "cellpara"
               /\ \E j \in 1..Len(m.para_deletions) :
                     m.para_deletions[j] = [row_idx |-> tid.r, col_idx |-> tid.c,
                                            para_idx |-> tid.p]
        col_inserts == m.col_inserts_after \o m.col_inserts_before
    IN /\ IsDistinct(m.row_deletions) /\ IsDistinct(m.col_deletions)
       /\ IsDistinct(m.para_deletions)
       /\ \A j \in 1..Len(m.replacements) : ~Gone(m.replacements[j].original_target_id)
       /\ \A j \in 1..Len(col_inserts) : ~Gone(col_inserts[j].original_target_id)
       /\ \A j \in 1..Len(row_inserts) : ~Gone(row_inserts[j].target_id)

\* The table of the snapshot with every edit at its coordinate of the
\* snapshot: the replacements first, then the deletions, then the inserts
\* at the places the deletions left their targets at.
SnapshotTable(block, m, row_inserts) ==
    LET pst == analysis_json.paragraph_style_templates
        map == analysis_json.style_alias_map
        AtShifted(col_inserts) ==
            [j \in 1..Len(col_inserts) |->
                [col_inserts[j] EXCEPT !.col_idx = Shifted(@, m.col_deletions)]]
        t1 == ApplyReplacements(block.xml, m.replacements)
        t2 == DeleteParagraphs(t1, ParaDeletionsDescending(m.para_deletions))
        t3 == DeleteRows(t2, Descending(m.row_deletions))
        t4 == DeleteColumns(t3, Descending(m.col_deletions))
        t5 == InsertColumns(t4, ByColIdx(AtShifted(m.col_inserts_after)), 0, pst, map)
        t6 == InsertColumns(t5, ByColIdx(AtShifted(m.col_inserts_before)), 1, pst, map)
    IN WithRowsAdded(t6, [j \in 1..Len(row_inserts) |->
                             [row_inserts[j] EXCEPT !.target_id.r =
                                 Shifted(@, m.row_deletions)]],
                     block)

\* C28: the coordinates of a batch are those of the snapshot.  When a batch
\* deletes rows, columns or paragraphs of cells of a table and replaces or
\* inserts elsewhere in the table, the table written is the table of the
\* snapshot with each edit at the row, the column or the paragraph that had
\* its coordinate in the snapshot.
C28_SnapshotCoordinates ==
    LET mb == MarkedBlocks[2]
        m == mb.m
        row_inserts == SelectSeq(edits_json.edits, IsRowInsertAfter)
        deletes == m.row_deletions # <<>> \/ m.col_deletions # <<>> \/ m.para_deletions # <<>>
    IN DocumentWritten /\ deletes /\ TargetsSurvive(m, row_inserts) =>
          TreeBody[2] = SnapshotTable(mb.block, m, row_inserts)

(***************************************************************************)
(* Bookmarks of a replaced paragraph.                                      *)
(***************************************************************************)
\* the bookmark markers of an element of the body
MarkersOf(el) ==
    IF el.kind = "p" THEN {(el.lead \o el.trail)[k] : k \in 1..Len(el.lead \o el.trail)}
    ELSE {}

\* C27: when a plain paragraph that holds no embedded object is replaced,
\* every bookmark marker of the original paragraph, start or end, is a
\* marker of a paragraph of the body that is written.
C27_BookmarksSurviveReplace ==
    DocumentWritten =>
        \A i \in 1..Len(MarkedBlocks) :
            LET block == MarkedBlocks[i].block
                m == MarkedBlocks[i].m
            IN block.type = "p" /\ ~_has_non_text_content(block.xml)
               /\ m.replaced /\ ~m.deleted =>
                  MarkersOf(block.xml) \subseteq UNION {MarkersOf(TreeBody[j]) :
                                                          j \in 1..Len(TreeBody)}

(***************************************************************************)
(* Entries inserted into a structured tag.                                 *)
(***************************************************************************)
IsEntryInsert(edit) ==
    IsInsert(edit.action) /\ edit.target_id.shape = "sdtpara" /\ edit.semantic_tag = "TOC"

\* the title that an entry written from the text shows
TitleOf(text) == ParseEntryText(text).title

\* the position in the entries of the original entry p (0-based; 0 stands
\* for the entry before the first, Len + 1 for the one after the last)
PositionOf(entries, original, p) ==
    IF p < 0 THEN 0
    ELSE IF p >= Len(original) THEN Len(entries) + 1
    ELSE CHOOSE k \in 0..Len(entries) :
            \/ k > 0 /\ entries[k] = original[p + 1]
            \/ k = 0 /\ \A j \in 1..Len(entries) : entries[j] # original[p + 1]

\* f places insert i of the batch at entry f[i]: the entry shows the text of
\* the insert and lies on the side of its target that the insert names,
\* short of the neighbour of the target; inserts on one side of one entry
\* lie in submission order.
PlacesInserts(f, edits, entries, original) ==
    /\ \A i, j \in 1..Len(edits) : i # j => f[i] # f[j]
    /\ \A i \in 1..Len(edits) :
          LET p == edits[i].target_id.p
          IN /\ entries[f[i]].title = TitleOf(edits[i].new_text)
             /\ IF edits[i].action = "insert_after"
                THEN /\ PositionOf(entries, original, p) < f[i]
                     /\ f[i] < PositionOf(entries, original, p + 1)
                ELSE /\ PositionOf(entries, original, p - 1) < f[i]
                     /\ f[i] < PositionOf(entries, original, p)
    /\ \A i, j \in 1..Len(edits) :
          /\ i < j
          /\ edits[i].action = edits[j].action
          /\ edits[i].target_id.p = edits[j].target_id.p
          => f[i] < f[j]

\* C24: after a batch of inserts of entries into one structured tag, every
\* entry inserted after entry p lies after p and before p + 1, every entry
\* inserted before p lies before p and after p - 1, and the inserts on one
\* side of one entry lie in the order of the batch, the original entries all
\* being there in their order.
C24_EntryInsertsSequenced ==
    LET edits == edits_json.edits
        original == analysis_json.blocks[1].xml.entries
        entries == TreeBody[1].entries
    IN /\ DocumentWritten
       /\ validation.exists /\ validation.valid
       /\ \A i \in 1..Len(edits) : IsEntryInsert(edits[i]) /\ edits[i].target_id.b = 0
       => /\ Len(entries) = Len(original) + Len(edits)
          /\ \A p \in 0..Len(original) - 1 : PositionOf(entries, original, p) > 0
          /\ \A p \in 1..Len(original) - 1 :
                PositionOf(entries, original, p - 1) < PositionOf(entries, original, p)
          /\ \E f \in [1..Len(edits) -> 1..Len(entries)] :
                PlacesInserts(f, edits, entries, original)

(***************************************************************************)
(* Anchors of the entries written by a batch.                              *)
(***************************************************************************)
IsEntryWrite(edit) ==
    /\ IsInsert(edit.action) \/ edit.action = "replace"
    /\ edit.target_id.shape = "sdtpara"
    /\ edit.semantic_tag = "TOC"
    /\ edit.target_id.b = 0

\* a batch of inserts and replacements of entries of the first block, no
\* two of the same text, has been applied
EntriesWritten ==
    /\ DocumentWritten
    /\ validation.exists /\ validation.valid
    /\ \A i \in 1..Len(edits_json.edits) : IsEntryWrite(edits_json.edits[i])
    /\ \A i, j \in 1..Len(edits_json.edits) :
          i # j => edits_json.edits[i].new_text # edits_json.edits[j].new_text

\* the entry that edit i of the batch wrote: the one that shows its text
WrittenEntry(i) ==
    LET entries == TreeBody[1].entries
    IN entries[CHOOSE k \in 1..Len(entries) :
                  entries[k].title = TitleOf(edits_json.edits[i].new_text)]

\* the names of the anchors and bookmarks of a body
NamesIn(body) ==
    UNION {IF body[k].kind = "sdt"
           THEN {body[k].entries[j].anchor : j \in 1..Len(body[k].entries)} \ {<<>>}
           ELSE IF body[k].kind = "p"
           THEN {mk.name : mk \in {x \in MarkersOf(body[k]) : x.tag = "bookmarkStart"}}
           ELSE {} : k \in 1..Len(body)}

\* the bookmark starts of the paragraphs of the written body that the
\* original body does not hold, in document order
RECURSIVE StartsWritten(_, _)
StartsWritten(body, original) ==
    IF body = <<>> THEN <<>>
    ELSE (IF Head(body).kind = "p"
          THEN SelectSeq(Head(body).lead \o Head(body).trail,
                         LAMBDA mk : /\ mk.tag = "bookmarkStart"
                                     /\ \A k \in 1..Len(original) :
                                           original[k].kind = "p" => mk \notin MarkersOf(original[k]))
          ELSE <<>>) \o StartsWritten(Tail(body), original)

\* C25: the anchor of an entry written with an anchor block differs from the
\* anchor of every other entry the batch wrote, with an anchor block or
\* without, and from every anchor and bookmark name of the original
\* document; the ids of the bookmarks written differ from one another.
C25_FreshAnchorsUnique ==
    LET edits == edits_json.edits
        written == StartsWritten(TreeBody, OriginalBody)
    IN EntriesWritten =>
          /\ \A i \in 1..Len(edits) :
                edits[i].anchor_block_id # NoBlock =>
                   /\ WrittenEntry(i).anchor \notin NamesIn(OriginalBody)
                   /\ \A j \in 1..Len(edits) :
                         j # i => WrittenEntry(j).anchor # WrittenEntry(i).anchor
          /\ \A a, b \in 1..Len(written) : a # b => written[a].id # written[b].id

(***************************************************************************)
(* Bookmarks of the anchor blocks.                                         *)
(***************************************************************************)
IsBlockReplace(edit) == edit.action = "replace" /\ edit.target_id.shape = "block"

\* a batch of inserts and replacements of entries of the first block, no
\* two of the same text, and of replacements of paragraphs has been applied
EntriesAndAnchorsWritten ==
    LET edits == edits_json.edits
    IN /\ DocumentWritten
       /\ validation.exists /\ validation.valid
       /\ \A i \in 1..Len(edits) : IsEntryWrite(edits[i]) \/ IsBlockReplace(edits[i])
       /\ \A i, j \in 1..Len(edits) :
             i # j /\ IsEntryWrite(edits[i]) /\ IsEntryWrite(edits[j])
             => edits[i].new_text # edits[j].new_text

\* the paragraph holds a bookmark of the name: its start before the first
\* run, its end after the last
SpansParagraph(para, name) ==
    \E a \in 1..Len(para.lead), b \in 1..Len(para.trail) :
        /\ para.lead[a].tag = "bookmarkStart"
        /\ para.lead[a].name = name
        /\ para.trail[b].tag = "bookmarkEnd"
        /\ para.trail[b].id = para.lead[a].id

\* C26: for every entry written with an anchor block, the paragraph emitted
\* for the anchor block holds a bookmark of the anchor of the entry, its
\* start after the paragraph properties and its end at the close of the
\* paragraph, also when several entries name one block and when the anchor
\* block is replaced in the batch.
C26_BookmarkInjected ==
    LET edits == edits_json.edits
    IN EntriesAndAnchorsWritten =>
          \A i \in 1..Len(edits) :
             IsEntryWrite(edits[i]) /\ edits[i].anchor_block_id # NoBlock =>
                LET para == TreeBody[edits[i].anchor_block_id + 1]
                IN para.kind = "p" /\ SpansParagraph(para, WrittenEntry(i).anchor)

(***************************************************************************)
(* One container per session.                                              *)
(***************************************************************************)
\* C30: whatever the interleaving of the calls of exec and stop on one
\* manager, docker runs at most one container of the manager at a time,
\* every docker exec is given the container docker runs, and when no call
\* is under way and the manager has no container, docker runs none.
C30_OneContainerPerSession ==
    /\ Cardinality(manager.running) <= 1
    /\ \A t \in ExecTasks : manager.ran[t].cid # None => manager.ran[t].found
    /\ (\A t \in Tasks : manager.pc[t] = "idle") /\ manager._container_id = None
       => manager.running = {}

(***************************************************************************)
(* Repacking.                                                              *)
(***************************************************************************)
SameNamesInOrder(out, arch) ==
    /\ Len(out) = Len(arch)
    /\ \A i \in 1..Len(arch) : out[i].name = arch[i].name

NameRepeats(arch, name) == Cardinality({i \in 1..Len(arch) : arch[i].name = name}) > 1

Reanalysis(arch) ==
    IF DocPart \in DOMAIN extract_docx_xml(arch).files
    THEN analyze(extract_docx_xml(arch))
    ELSE NoAnalysis

\* C9: the archive that analyze, apply with an empty edit list and repack
\* give has, analysed again, as many blocks as the original and the same
\* text in every block.
C9_EmptyBatchIsIdentity ==
    (applied = "noedits" /\ output_docx.exists) =>
        LET again == Reanalysis(output_docx.entries)
        IN /\ again.exists
           /\ Len(again.blocks) = Len(analysis_json.blocks)
           /\ \A k \in 1..Len(again.blocks) :
               again.blocks[k].text = analysis_json.blocks[k].text

\* the three stages ran on an empty edit list, and the document has blocks
\* with text
C9_Witness ==
    /\ applied = "noedits"
    /\ output_docx.exists
    /\ analysis_json.exists
    /\ Len(analysis_json.blocks) >= 2
    /\ \A k \in 1..Len(analysis_json.blocks) : analysis_json.blocks[k].text # <<>>

====
